---- MODULE Spec2Model ----
(***************************************************************************)
(* OrcaSync: the repository-and-synchronisation engine (GitManager in      *)
(* orcasync/git_ops.py) as a state machine.  Two machines share one remote *)
(* repository; each machine has external profile directories, a local      *)
(* repository with a working tree holding the managed subtree              *)
(* profiles/<leaf>, and a GitManager whose methods are the actions.        *)
(***************************************************************************)
EXTENDS Integers, Sequences, FiniteSets, TLC

(***************************************************************************)
(* Bounds of the model.                                                    *)
(***************************************************************************)
MaxContent == 2
MaxEdits == 3
MaxCommits == 4
MaxWorkers == 2

(***************************************************************************)
(* Domains.                                                                *)
(***************************************************************************)
Machines == {"A", "B"}
BranchNames == {"main", "pc"}
DefaultBranch == "main"
Paths == {"/a/user", "/b/user", "/a/system"}
Parents == {"/a", "/b"}
Leaves == {"user", "system"}
RelPaths == <<"filament/PLA.json", "machine/X1.json">>
RelSet == {RelPaths[i] : i \in 1..Len(RelPaths)}
Contents == 0..MaxContent

\* Path.name: the last component of a path.
LeafOf(p) ==
  CASE p = "/a/user" -> "user"
    [] p = "/b/user" -> "user"
    [] p = "/a/system" -> "system"

\* Path.parent: the directory holding a path.
ParentOf(p) ==
  CASE p = "/a/user" -> "/a"
    [] p = "/b/user" -> "/b"
    [] p = "/a/system" -> "/a"

\* A directory: the content of each regular file below it, 0 for no file.
Dir == [RelSet -> Contents]
EmptyDir == [f \in RelSet |-> 0]
\* A directory that may not exist: <<>> or <<dir>>.
None == <<>>
Some(d) == <<d>>
OptDir == {None} \cup {Some(d) : d \in Dir}
Exists(o) == o # None
FilesOf(o) == IF o = None THEN {} ELSE {f \in RelSet : o[1][f] # 0}

VARIABLES
  ext,      \* ext[m][p]: the external profile directory p on machine m
  parent,   \* parent[m][q]: the directory q above profile directories exists
  wt,       \* wt[m]: working tree of the repository at repo_path
  disk,     \* disk[m]: what repo_path holds: "absent", "invalid", "repo"
  handle,   \* handle[m]: GitManager.repo is set
  url,      \* url[m]: GitManager.repo_url ("" for none)
  bname,    \* bname[m]: GitManager.branch_name
  origin,   \* origin[m]: URL of the remote 'origin' of the repository ("" none)
  heads,    \* heads[m][b]: commit of local branch b, 0 when b does not exist
  active,   \* active[m]: the checked-out branch
  track,    \* track[m][b]: b has a tracking branch origin/b
  orefs,    \* orefs[m][b]: commit of the remote-tracking ref origin/b, 0 none
  rheads,   \* rheads[b]: commit of branch b in the remote repository, 0 none
  commits,  \* commits[c]: the commit objects created so far (a sequence)
  call,     \* the engine call that completed last, with its outcome
  edits     \* number of edits of external directories so far

vars == <<ext, parent, wt, disk, handle, url, bname, origin, heads, active, track,
          orefs, rheads, commits, call, edits>>

mvars == <<disk, handle, url, bname, origin, heads, active, track, orefs>>
gitvars == <<rheads, commits>>

(***************************************************************************)
(* Working trees and commit trees.                                         *)
(***************************************************************************)
\* The working tree: README.md, the managed root and its leaf directories.
NoTree == [readme |-> FALSE, root |-> FALSE, sub |-> [l \in Leaves |-> None]]

\* A tree that records the README alone.
TreeOfReadmeOnly(w) ==
  [readme |-> w.readme, sub |-> [l \in Leaves |-> EmptyDir]]

\* The tree git records for a working tree (git add -A): files only, an
\* empty directory is not recorded.
TreeOf(w) ==
  [readme |-> w.readme,
   sub |-> [l \in Leaves |-> IF w.sub[l] = None THEN EmptyDir ELSE w.sub[l][1]]]
EmptyTree == [readme |-> FALSE, sub |-> [l \in Leaves |-> EmptyDir]]

TreeAt(c) == IF c = 0 THEN EmptyTree ELSE commits[c].tree
HeadCommit(m) == heads[m][active[m]]

(***************************************************************************)
(* The record of the last call.                                            *)
(***************************************************************************)
Snapshot(m) ==
  [ext |-> ext[m], parent |-> parent[m], wt |-> wt[m], heads |-> heads[m], active |-> active[m],
   track |-> track[m], orefs |-> orefs[m], origin |-> origin[m],
   rheads |-> rheads, ncommits |-> Len(commits), handle |-> handle[m],
   disk |-> disk[m]]

\* The threads of the terminal interface: slot 0 is the thread of the user
\* interface, the other slots are worker threads.
Slots == 0..MaxWorkers
NoThread == [cmd |-> "", n |-> 0, out |-> "ok", flag |-> FALSE, cancelled |-> FALSE]

\* No command of the command line is running, and no terminal interface.
NoRun ==
  [cmd |-> "", m |-> "", confirm |-> TRUE, message |-> None, trace |-> <<>>, exit |-> 0,
   threads |-> [t \in Slots |-> NoThread], cur |-> -1]

\* The command in progress after a call of op on machine m: the call joins
\* the calls the command has made (exit -1: the command has not ended); in
\* the terminal interface it is a call of the thread that is running.
Ran(m, op, out, err, flag) ==
  IF call.run.cmd = "tui"
  THEN IF call.run.cur \in Slots
       THEN [call.run EXCEPT !.threads[call.run.cur] =
               [@ EXCEPT !.n = @ + 1, !.out = out, !.flag = flag]]
       ELSE call.run
  ELSE IF call.run.cmd # "" /\ call.run.exit = -1 /\ call.run.m = m
  THEN [call.run EXCEPT !.trace = Append(@, [op |-> op, out |-> out, err |-> err[1], flag |-> flag])]
  ELSE NoRun

Idle ==
  [m |-> "", op |-> "", out |-> "", err |-> <<"", "">>, args |-> <<>>, ret |-> <<>>,
   flag |-> FALSE, backend |-> <<>>, pre |-> <<>>, run |-> NoRun]

Done(m, op, out, err, args, ret, flag, backend) ==
  [m |-> m, op |-> op, out |-> out, err |-> err, args |-> args, ret |-> ret,
   flag |-> flag, backend |-> backend, pre |-> <<Snapshot(m)>>,
   run |-> Ran(m, op, out, err, flag)]

\* An error is a pair: its text and the backend text it carries.
NoError == <<"", "">>
Raised(m, op, err, args) == Done(m, op, "raised", <<err, "">>, args, <<>>, FALSE, <<>>)

NotInitialized == "Repository not initialized"

\* A manager on which an operation runs whenever repo_path holds a repository.
OpenedOnDisk(m) == disk[m] = "repo"

\* `if not self.repo` is false: init_repository has set the handle.
Opened(m) == handle[m]

\* A manager always taken to have the remote 'origin'.
HasOriginAlways(m) == TRUE

\* "origin" in self.repo.remotes
HasOrigin(m) == origin[m] # ""

(***************************************************************************)
(* TreeSynchronizer: sync_files and restore_files.                         *)
(***************************************************************************)
\* for file_path in dest_path.rglob("*"): if file_path.is_file()
RECURSIVE FileList(_, _, _)
FileList(top, d, i) ==
  IF i > Len(RelPaths) THEN <<>>
  ELSE (IF d[RelPaths[i]] # 0 THEN <<<<top, RelPaths[i]>>>> ELSE <<>>)
       \o FileList(top, d, i + 1)

\* repo_path, and the directory a relative file path lies in.
RepoPath == "/repo"
DirNameOf == [f \in RelSet |-> IF f = RelPaths[1] THEN "filament" ELSE "machine"]

\* dest_path.rglob("*") for the directory top holding the files d: the
\* directories and the files below top, as paths of components.
RECURSIVE Rglob(_, _, _)
Rglob(top, d, i) ==
  IF i > Len(RelPaths) THEN <<>>
  ELSE (IF d[RelPaths[i]] # 0
        THEN <<[path |-> top \o <<DirNameOf[RelPaths[i]]>>, kind |-> "dir"],
               [path |-> top \o <<RelPaths[i]>>, kind |-> "file"]>>
        ELSE <<>>)
       \o Rglob(top, d, i + 1)

\* Every entry of the walk taken for a file.
IsFileAlways(e) == TRUE

\* file_path.is_file()
IsFile(e) == e.kind = "file"

\* file_path.relative_to(self.repo_path)
RelativeTo(path, root) == SubSeq(path, 2, Len(path))

\* The entries sync_files appends for the subtree profiles/<l> holding d.
CopiedFiles(l, d) ==
  LET fs == SelectSeq(Rglob(<<RepoPath, "profiles", l>>, d, 1), IsFile)
  IN [i \in 1..Len(fs) |-> RelativeTo(fs[i].path, RepoPath)]

\* A copy into a directory that may exist, without removing it first.
Overlay(old, new) ==
  IF old = None THEN new
  ELSE Some([f \in RelSet |-> IF new[1][f] # 0 THEN new[1][f] ELSE old[1][f]])

\* sync_files without the rmtree of the destination subtree.
RECURSIVE SyncLoopNoDelete(_, _, _, _, _)
SyncLoopNoDelete(paths, i, src, sub, copied) ==
  IF i > Len(paths) THEN [sub |-> sub, copied |-> copied]
  ELSE LET p == paths[i]
           l == LeafOf(p) IN
       IF ~Exists(src[p])
       THEN SyncLoopNoDelete(paths, i + 1, src, sub, copied)
       ELSE SyncLoopNoDelete(paths, i + 1, src,
                             [sub EXCEPT ![l] = Overlay(sub[l], src[p])],
                             copied \o CopiedFiles(l, src[p][1]))

\* sync_files removing the subtree of a source path that does not exist.
RECURSIVE SyncLoopClearMissing(_, _, _, _, _)
SyncLoopClearMissing(paths, i, src, sub, copied) ==
  IF i > Len(paths) THEN [sub |-> sub, copied |-> copied]
  ELSE LET p == paths[i]
           l == LeafOf(p) IN
       IF ~Exists(src[p])
       THEN SyncLoopClearMissing(paths, i + 1, src, [sub EXCEPT ![l] = None], copied)
       ELSE SyncLoopClearMissing(paths, i + 1, src, [sub EXCEPT ![l] = src[p]],
                                 copied \o CopiedFiles(l, src[p][1]))

\* sync_files keeping the subtree of the first source of a leaf name.
RECURSIVE SyncLoopFirstWins(_, _, _, _, _)
SyncLoopFirstWins(paths, i, src, sub, copied) ==
  IF i > Len(paths) THEN [sub |-> sub, copied |-> copied]
  ELSE LET p == paths[i]
           l == LeafOf(p) IN
       IF ~Exists(src[p])
          \/ \E j \in 1..(i - 1) : Exists(src[paths[j]]) /\ LeafOf(paths[j]) = l
       THEN SyncLoopFirstWins(paths, i + 1, src, sub, copied)
       ELSE SyncLoopFirstWins(paths, i + 1, src, [sub EXCEPT ![l] = src[p]],
                              copied \o CopiedFiles(l, src[p][1]))

\* The loop of sync_files over source_paths[i..]; sub is the managed root.
RECURSIVE SyncLoop(_, _, _, _, _)
SyncLoop(paths, i, src, sub, copied) ==
  IF i > Len(paths) THEN [sub |-> sub, copied |-> copied]
  ELSE LET p == paths[i]
           l == LeafOf(p) IN
       IF ~Exists(src[p])
       THEN SyncLoop(paths, i + 1, src, sub, copied)
       ELSE SyncLoop(paths, i + 1, src, [sub EXCEPT ![l] = src[p]],
                     copied \o CopiedFiles(l, src[p][1]))

SyncFiles(m, paths) ==
  IF ~Opened(m)
     THEN /\ call' = Raised(m, "sync_files", NotInitialized, paths)
          /\ UNCHANGED <<ext, parent, wt, mvars, gitvars, edits>>
     ELSE LET r == SyncLoop(paths, 1, ext[m], wt[m].sub, <<>>) IN
          /\ wt' = [wt EXCEPT ![m].root = TRUE, ![m].sub = r.sub]
          /\ call' = Done(m, "sync_files", "ok", NoError, paths, r.copied, FALSE, <<>>)
          /\ UNCHANGED <<ext, parent, mvars, gitvars, edits>>

\* restore_files without the rmtree of the destination directory.
RECURSIVE RestoreLoopNoDelete(_, _, _, _, _, _)
RestoreLoopNoDelete(paths, i, sub, dst, par, restored) ==
  IF i > Len(paths) THEN [dst |-> dst, par |-> par, restored |-> restored]
  ELSE LET p == paths[i]
           l == LeafOf(p) IN
       IF ~Exists(sub[l])
       THEN RestoreLoopNoDelete(paths, i + 1, sub, dst, par, restored)
       ELSE RestoreLoopNoDelete(paths, i + 1, sub,
                                [dst EXCEPT ![p] = Overlay(dst[p], sub[l])],
                                [par EXCEPT ![ParentOf(p)] = TRUE],
                                restored \o FileList(p, sub[l][1], 1))

\* The loop of restore_files over target_paths[i..]; dst the external
\* directories, par the directories above them.
RECURSIVE RestoreLoop(_, _, _, _, _, _)
RestoreLoop(paths, i, sub, dst, par, restored) ==
  IF i > Len(paths) THEN [dst |-> dst, par |-> par, restored |-> restored]
  ELSE LET p == paths[i]
           l == LeafOf(p) IN
       IF ~Exists(sub[l])
       THEN RestoreLoop(paths, i + 1, sub, dst, par, restored)
       ELSE RestoreLoop(paths, i + 1, sub, [dst EXCEPT ![p] = sub[l]],
                        [par EXCEPT ![ParentOf(p)] = TRUE],
                        restored \o FileList(p, sub[l][1], 1))

RestoreFiles(m, paths) ==
  IF ~Opened(m)
  THEN /\ call' = Raised(m, "restore_files", NotInitialized, paths)
       /\ UNCHANGED <<ext, parent, wt, mvars, gitvars, edits>>
  ELSE IF ~wt[m].root
  THEN /\ call' = Done(m, "restore_files", "ok", NoError, paths, <<>>, FALSE, <<>>)
       /\ UNCHANGED <<ext, parent, wt, mvars, gitvars, edits>>
  ELSE LET r == RestoreLoop(paths, 1, wt[m].sub, ext[m], parent[m], <<>>) IN
       /\ ext' = [ext EXCEPT ![m] = r.dst]
       /\ parent' = [parent EXCEPT ![m] = r.par]
       /\ call' = Done(m, "restore_files", "ok", NoError, paths, r.restored, FALSE, <<>>)
       /\ UNCHANGED <<wt, mvars, gitvars, edits>>

(***************************************************************************)
(* The user (OrcaSlicer) changing an external profile directory.           *)
(***************************************************************************)
EditExt(m, p) ==
  /\ edits < MaxEdits
  /\ edits' = edits + 1
  /\ call' = Idle
  /\ \/ /\ ~Exists(ext[m][p])
        /\ ext' = [ext EXCEPT ![m][p] = Some(EmptyDir)]
        /\ parent' = [parent EXCEPT ![m][ParentOf(p)] = TRUE]
     \/ /\ Exists(ext[m][p])
        /\ ext' = [ext EXCEPT ![m][p] = None]
        /\ UNCHANGED parent
     \/ /\ Exists(ext[m][p])
        /\ \E f \in RelSet, c \in Contents :
             /\ c # ext[m][p][1][f]
             /\ ext' = [ext EXCEPT ![m][p] = Some([@[1] EXCEPT ![f] = c])]
        /\ UNCHANGED parent
     \/ /\ parent[m][ParentOf(p)]
        /\ ext' = [ext EXCEPT ![m] = [q \in Paths |->
                      IF ParentOf(q) = ParentOf(p) THEN None ELSE @[q]]]
        /\ parent' = [parent EXCEPT ![m][ParentOf(p)] = FALSE]
  /\ UNCHANGED <<wt, mvars, gitvars>>

(***************************************************************************)
(* The commit graph.                                                       *)
(***************************************************************************)
Commit(p1, p2, tree) == [p1 |-> p1, p2 |-> p2, tree |-> tree]
ReadmeTree == [readme |-> TRUE, sub |-> [l \in Leaves |-> EmptyDir]]

RECURSIVE AncestorsOrSelf(_)
AncestorsOrSelf(c) ==
  IF c = 0 THEN {}
  ELSE {c} \cup AncestorsOrSelf(commits[c].p1) \cup AncestorsOrSelf(commits[c].p2)

\* The paths a diff between two trees reports.
DiffPaths(a, b) ==
  (IF a.readme # b.readme THEN {<<"README.md">>} ELSE {})
  \cup {<<"profiles", x[1], x[2]>> :
          x \in {y \in Leaves \X RelSet : a.sub[y[1]][y[2]] # b.sub[y[1]][y[2]]}}

\* The content of a file of the working tree, 0 when there is none.
WtFile(w, l, f) == IF w.sub[l] = None THEN 0 ELSE w.sub[l][1][f]

\* git switching the working tree from tree a to tree b: a path whose
\* content differs between a and b and was changed locally stops it.
Conflict(a, b, w) ==
  \/ a.readme # b.readme /\ w.readme # a.readme
  \/ \E l \in Leaves, f \in RelSet :
       a.sub[l][f] # b.sub[l][f] /\ WtFile(w, l, f) # a.sub[l][f]

Checkout(a, b, w) ==
  LET files(l) == [f \in RelSet |->
                     IF a.sub[l][f] = b.sub[l][f] THEN WtFile(w, l, f) ELSE b.sub[l][f]]
      sub == [l \in Leaves |->
                IF files(l) # EmptyDir THEN Some(files(l))
                ELSE IF w.sub[l] = Some(EmptyDir) THEN w.sub[l]
                ELSE None]
  IN [readme |-> IF a.readme = b.readme THEN w.readme ELSE b.readme,
      root |-> \/ \E l \in Leaves : sub[l] # None
               \/ w.root /\ \A l \in Leaves : w.sub[l] = None,
      sub |-> sub]

\* A tracked file changed or deleted in the working tree.
Unstaged(m) ==
  LET h == TreeAt(HeadCommit(m)) IN
  \/ h.readme /\ ~wt[m].readme
  \/ \E l \in Leaves, f \in RelSet : h.sub[l][f] # 0 /\ WtFile(wt[m], l, f) # h.sub[l][f]

(***************************************************************************)
(* RepositoryController: init_repository.                                  *)
(***************************************************************************)
NoHeads == [b \in BranchNames |-> 0]
NoTrack == [b \in BranchNames |-> FALSE]
CloneFailed == "Failed to clone repository"
GitCommandError == "GitCommandError"

\* A repository that counts as valid only while its remote is repo_url.
ValidIfUrlSame(m) == disk[m] = "repo" /\ (url[m] = "" \/ origin[m] = url[m])

\* A repository path that never counts as valid.
ValidNever(m) == FALSE

\* Repo(self.repo_path) succeeds: the path exists and holds a repository.
Valid(m) == disk[m] = "repo"

\* shutil.rmtree(self.repo_path), issued when the path exists and Repo()
\* raised InvalidGitRepositoryError.
Removal(m) == IF disk[m] # "absent" THEN <<"rmtree">> ELSE <<>>

\* A remote that is never touched when a repository is opened.
ReconcileKeep(m) == origin[m]

\* A remote that is updated when there is one and never added.
ReconcileIfSet(m) == IF origin[m] # "" /\ url[m] # "" THEN url[m] ELSE origin[m]

\* The URL of 'origin' after opening a valid repository: set_url when
\* repo_url is given and differs, create_remote when there is no remote.
Reconcile(m) == IF url[m] # "" THEN url[m] ELSE origin[m]

\* A clone only into a path that did not exist.
WantsCloneIfAbsent(m) == url[m] # "" /\ disk[m] = "absent"

\* `if self.repo_url` once the path holds nothing: clone, else Repo.init.
WantsClone(m) == url[m] # ""

\* A handle that is set whatever the clone answers.
HandleAlways(m, cloneOk) == TRUE

\* self.repo = Repo.clone_from(...): assigned only when the clone returns.
HandleAfter(m, cloneOk) == IF cloneOk THEN TRUE ELSE handle[m]

\* cloneOk: whether the backend's clone succeeds.
InitRepository(m, cloneOk) ==
  IF Valid(m)
  THEN \* the path holds a valid repository: open it, reconcile the remote
       /\ handle' = [handle EXCEPT ![m] = TRUE]
       /\ origin' = [origin EXCEPT ![m] = Reconcile(m)]
       /\ call' = Done(m, "init_repository", "ok", NoError, <<>>, <<>>, FALSE, <<"open">>)
       /\ UNCHANGED <<ext, parent, wt, disk, url, bname, heads, active, track,
                      orefs, gitvars, edits>>
  ELSE IF WantsClone(m)
  THEN IF cloneOk
       THEN \* Repo.clone_from: the remote's default branch is checked out
            LET h == rheads[DefaultBranch] IN
            /\ disk' = [disk EXCEPT ![m] = "repo"]
            /\ handle' = [handle EXCEPT ![m] = HandleAfter(m, cloneOk)]
            /\ origin' = [origin EXCEPT ![m] = url[m]]
            /\ heads' = [heads EXCEPT ![m] = [NoHeads EXCEPT ![DefaultBranch] = h]]
            /\ active' = [active EXCEPT ![m] = DefaultBranch]
            /\ track' = [track EXCEPT ![m] = [NoTrack EXCEPT ![DefaultBranch] = TRUE]]
            /\ orefs' = [orefs EXCEPT ![m] = rheads]
            /\ wt' = [wt EXCEPT ![m] = Checkout(EmptyTree, TreeAt(h), NoTree)]
            /\ call' = Done(m, "init_repository", "ok", NoError, <<>>, <<>>, FALSE,
                            Removal(m) \o <<"clone">>)
            /\ UNCHANGED <<ext, parent, url, bname, gitvars, edits>>
       ELSE \* the invalid path was removed; the clone failed
            /\ disk' = [disk EXCEPT ![m] = "absent"]
            /\ wt' = [wt EXCEPT ![m] = NoTree]
            /\ handle' = [handle EXCEPT ![m] = HandleAfter(m, cloneOk)]
            /\ call' = Done(m, "init_repository", "raised", <<CloneFailed, "">>, <<>>, <<>>,
                            FALSE, Removal(m) \o <<"clone">>)
            /\ UNCHANGED <<ext, parent, url, bname, origin, heads, active,
                           track, orefs, gitvars, edits>>
  ELSE \* Repo.init and the bootstrap commit of README.md
       /\ Len(commits) < MaxCommits
       /\ commits' = Append(commits, Commit(0, 0, ReadmeTree))
       /\ disk' = [disk EXCEPT ![m] = "repo"]
       /\ handle' = [handle EXCEPT ![m] = TRUE]
       /\ origin' = [origin EXCEPT ![m] = ""]
       /\ heads' = [heads EXCEPT ![m] = [NoHeads EXCEPT ![DefaultBranch] = Len(commits) + 1]]
       /\ active' = [active EXCEPT ![m] = DefaultBranch]
       /\ track' = [track EXCEPT ![m] = NoTrack]
       /\ orefs' = [orefs EXCEPT ![m] = NoHeads]
       /\ wt' = [wt EXCEPT ![m] = [NoTree EXCEPT !.readme = TRUE]]
       /\ call' = Done(m, "init_repository", "ok", NoError, <<>>, <<>>, FALSE,
                       Removal(m) \o <<"init">>)
       /\ UNCHANGED <<ext, parent, url, bname, rheads, edits>>

\* A new GitManager(repo_path, repo_url, branch_name): the next command.
NewManager(m, u, b) ==
  /\ handle[m]
  /\ handle' = [handle EXCEPT ![m] = FALSE]
  /\ url' = [url EXCEPT ![m] = u]
  /\ bname' = [bname EXCEPT ![m] = b]
  /\ call' = Idle
  /\ UNCHANGED <<ext, parent, wt, disk, origin, heads, active, track, orefs,
                 gitvars, edits>>

(***************************************************************************)
(* BranchCoordinator: ensure_branch.                                       *)
(***************************************************************************)
\* git fetch: every branch of the remote gets its remote-tracking ref.
Fetched(m) == [b \in BranchNames |-> IF rheads[b] # 0 THEN rheads[b] ELSE orefs[m][b]]

\* Branch discovery that never looks at the remote.
DiscoverHeadOnly(m, fetchOk) ==
  [orefs |-> orefs[m], fetched |-> FALSE, fromRemote |-> FALSE, start |-> HeadCommit(m)]

\* Branch discovery for a missing local branch: the remote-tracking refs
\* after the fetch, whether origin/<branch_name> was found, and the commit
\* the new branch starts at.  fetchOk: whether the backend's fetch succeeds.
Discover(m, fetchOk) ==
  LET fetched == origin[m] # "" /\ fetchOk
      refs == IF fetched THEN Fetched(m) ELSE orefs[m]
      found == fetched /\ refs[bname[m]] # 0
  IN [orefs |-> refs, fetched |-> fetched, fromRemote |-> found,
      start |-> IF found THEN refs[bname[m]] ELSE HeadCommit(m)]

\* A checkout that does nothing.
StayOn(m, b, c) == [active |-> active[m], wt |-> wt[m]]

\* self.repo.heads[branch_name].checkout(): branch b, at commit c.
SwitchTo(m, b, c) ==
  [active |-> b, wt |-> Checkout(TreeAt(HeadCommit(m)), TreeAt(c), wt[m])]

\* A branch that is looked for and created whether it exists or not.
MissingAlways(m) == TRUE

\* if self.branch_name not in self.repo.heads
Missing(m) == heads[m][bname[m]] = 0

EnsureBranch(m, fetchOk) ==
  IF ~Opened(m)
  THEN /\ call' = Raised(m, "ensure_branch", NotInitialized, <<>>)
       /\ UNCHANGED <<ext, parent, wt, mvars, gitvars, edits>>
  ELSE
  LET bn == bname[m]
      exists == ~Missing(m)
      d == Discover(m, fetchOk)
      \* create_head(branch_name, 'HEAD') needs a commit at HEAD
      createFails == ~exists /\ d.start = 0
      heads1 == IF exists THEN heads[m] ELSE [heads[m] EXCEPT ![bn] = d.start]
      track1 == IF ~exists /\ d.fromRemote THEN [track[m] EXCEPT ![bn] = TRUE] ELSE track[m]
      how == IF exists THEN <<"checkout">>
             ELSE (IF origin[m] = "" THEN <<>>
                   ELSE IF fetchOk THEN <<"fetch">> ELSE <<"fetch failed">>)
                  \o <<IF d.fromRemote THEN "create from remote" ELSE "create from HEAD">>
      after == SwitchTo(m, bn, heads1[bn])
  IN
  /\ orefs' = [orefs EXCEPT ![m] = IF exists THEN @ ELSE d.orefs]
  /\ IF createFails
     THEN /\ call' = Done(m, "ensure_branch", "raised", <<GitCommandError, "">>, <<>>,
                          <<>>, FALSE, how)
          /\ UNCHANGED <<ext, parent, wt, disk, handle, url, bname, origin, heads,
                         active, track, gitvars, edits>>
     ELSE /\ heads' = [heads EXCEPT ![m] = heads1]
          /\ track' = [track EXCEPT ![m] = track1]
          /\ IF Conflict(TreeAt(HeadCommit(m)), TreeAt(heads1[bn]), wt[m])
             THEN \* the checkout is refused: local changes would be overwritten
                  /\ call' = Done(m, "ensure_branch", "raised", <<GitCommandError, "">>,
                                  <<>>, <<>>, FALSE, how)
                  /\ UNCHANGED <<wt, active>>
             ELSE /\ active' = [active EXCEPT ![m] = after.active]
                  /\ wt' = [wt EXCEPT ![m] = after.wt]
                  /\ call' = Done(m, "ensure_branch", "ok", NoError, <<>>, <<>>, FALSE, how)
          /\ UNCHANGED <<ext, parent, disk, handle, url, bname, origin, gitvars, edits>>

(***************************************************************************)
(* CommitManager: commit_changes.                                          *)
(***************************************************************************)
\* A commit whatever the state of the working tree.
AlwaysDirty(m) == TRUE

\* repo.is_dirty() or repo.untracked_files, after git add -A
Dirty(m) == TreeOf(wt[m]) # TreeAt(HeadCommit(m))

\* platform.node() on machine m
Hostname(m) == IF m = "A" THEN "alpha" ELSE "beta-2"

\* The values datetime.now() takes.
Morning == [Y |-> 2024, M |-> 1, D |-> 5, h |-> 9, mi |-> 3, s |-> 7]
Clock == {Morning, [Y |-> 2025, M |-> 12, D |-> 31, h |-> 23, mi |-> 59, s |-> 59]}

\* %m, %d, %H, %M, %S: two digits
Pad2(n) == IF n < 10 THEN "0" \o ToString(n) ELSE ToString(n)

\* strftime("%Y-%m-%d %H:%M:%S")
Strftime(t) ==
  ToString(t.Y) \o "-" \o Pad2(t.M) \o "-" \o Pad2(t.D) \o " "
  \o Pad2(t.h) \o ":" \o Pad2(t.mi) \o ":" \o Pad2(t.s)

\* The message argument: None, or a string.
Messages == {None, Some(""), Some("Update PLA profiles"), Some("wip")}

\* A message that is generated whatever the caller supplies.
MessageGenerated(m, message, now) ==
  "Sync from " \o Hostname(m) \o " - " \o Strftime(now)

\* if not message: message = f"Sync from {hostname} - {timestamp}"
Message(m, message, now) ==
  IF message = None \/ message[1] = ""
  THEN "Sync from " \o Hostname(m) \o " - " \o Strftime(now)
  ELSE message[1]

\* get_status: the dictionary it returns.
GetStatus(m) ==
  /\ call' = Done(m, "get_status", "ok", NoError, <<>>,
                  IF ~Opened(m) THEN <<[initialized |-> FALSE]>>
                  ELSE LET h == TreeAt(HeadCommit(m)) IN
                       <<[initialized |-> TRUE, branch |-> active[m], dirty |-> Unstaged(m),
                          untracked_files |->
                            Cardinality({x \in Leaves \X RelSet :
                                           h.sub[x[1]][x[2]] = 0 /\ WtFile(wt[m], x[1], x[2]) # 0})
                            + (IF wt[m].readme /\ ~h.readme THEN 1 ELSE 0),
                          has_remote |-> HasOrigin(m)]>>,
                  FALSE, <<>>)
  /\ UNCHANGED <<ext, parent, wt, mvars, gitvars, edits>>

\* A commit that advances the default branch.
HeadRefDefault(m) == DefaultBranch

\* The branch HEAD refers to, which repo.index.commit advances.
HeadRef(m) == active[m]

CommitChanges(m, message, now) ==
  IF ~Opened(m)
  THEN /\ call' = Raised(m, "commit_changes", NotInitialized, <<message>>)
       /\ UNCHANGED <<ext, parent, wt, mvars, gitvars, edits>>
  ELSE IF ~Dirty(m)
  THEN /\ call' = Done(m, "commit_changes", "ok", NoError, <<message>>, <<>>, FALSE, <<>>)
       /\ UNCHANGED <<ext, parent, wt, mvars, gitvars, edits>>
  ELSE /\ Len(commits) < MaxCommits
       /\ commits' = Append(commits, Commit(HeadCommit(m), 0, TreeOf(wt[m])))
       /\ heads' = [heads EXCEPT ![m][HeadRef(m)] = Len(commits) + 1]
       /\ call' = Done(m, "commit_changes", "ok", NoError, <<message>>, <<>>, TRUE,
                       <<[call |-> "index.commit", message |-> Message(m, message, now),
                          now |-> now]>>)
       /\ UNCHANGED <<ext, parent, wt, disk, handle, url, bname, origin, active,
                      track, orefs, rheads, edits>>

(***************************************************************************)
(* RemoteSyncEngine: push.                                                 *)
(***************************************************************************)
NoRemote == "No remote 'origin' configured"
ErrorFlags == {"ERROR", "REJECTED", "REMOTE_REJECTED", "REMOTE_FAILURE"}

\* The push statuses (PushInfo) the backend may report.
Status(flags, summary) == [flags |-> flags, summary |-> summary]
GoodStatuses == {Status({"FAST_FORWARD"}, "a..b"), Status({"UP_TO_DATE"}, "up to date")}
BadStatuses ==
  {Status({"ERROR"}, "failed"), Status({"REJECTED"}, "rejected"),
   Status({"REMOTE_REJECTED"}, "declined"), Status({"REMOTE_FAILURE"}, "hung up"),
   Status({"ERROR", "REJECTED"}, "fetch first")}
Statuses == GoodStatuses \cup BadStatuses
InfoLists == {<<>>} \cup {<<x>> : x \in Statuses}
             \cup {<<x, y>> : x \in Statuses, y \in BadStatuses}

\* The messages of a failing backend command, each the set of the known
\* phrases its text contains, in the letter case git writes them.
PushMessages ==
  {{}, {"Authentication failed"}, {"403"}, {"Repository not found"}, {"404"},
   {"non-fast-forward"}, {"Permission denied", "Repository not found"},
   {"404", "non-fast-forward"}, {"terminal prompts disabled"}}

\* str.lower() of a phrase
Lower(x) ==
  CASE x = "Authentication failed" -> "authentication failed"
    [] x = "Repository not found" -> "repository not found"
    [] x = "Permission denied" -> "permission denied"
    [] OTHER -> x

AuthPhrases ==
  {"authentication failed", "could not read username", "could not read password",
   "permission denied", "authentication error", "invalid credentials",
   "access denied", "terminal prompts disabled", "no credentials", "403", "401"}

\* A classification that tests for 'repository not found' before the
\* authentication phrases.
ClassifyPushNotFoundFirst(msg) ==
  LET error_msg == {Lower(x) : x \in msg} IN
  IF error_msg \cap {"repository not found", "404"} # {} THEN "Repository not found"
  ELSE IF error_msg \cap AuthPhrases # {} THEN "Authentication failed"
  ELSE IF "non-fast-forward" \in error_msg THEN "Push rejected (non-fast-forward)"
  ELSE "Failed to push"

\* except git.GitCommandError as e: the error push raises for message msg
ClassifyPush(msg) ==
  LET error_msg == {Lower(x) : x \in msg} IN
  IF error_msg \cap AuthPhrases # {} THEN "Authentication failed"
  ELSE IF error_msg \cap {"repository not found", "404"} # {} THEN "Repository not found"
  ELSE IF "non-fast-forward" \in error_msg THEN "Push rejected (non-fast-forward)"
  ELSE "Failed to push"

\* A scan of the statuses that looks at the ERROR flag only.
RECURSIVE CheckInfosErrorOnly(_, _)
CheckInfosErrorOnly(infos, i) ==
  IF i > Len(infos) THEN NoError
  ELSE IF "ERROR" \in infos[i].flags THEN <<"Push failed", infos[i].summary>>
  ELSE CheckInfosErrorOnly(infos, i + 1)

\* for info in push_info: the first status with an error flag decides
RECURSIVE CheckInfos(_, _)
CheckInfos(infos, i) ==
  IF i > Len(infos) THEN NoError
  ELSE IF "ERROR" \in infos[i].flags THEN <<"Push failed", infos[i].summary>>
  ELSE IF "REJECTED" \in infos[i].flags THEN <<"Push rejected", infos[i].summary>>
  ELSE IF "REMOTE_REJECTED" \in infos[i].flags
  THEN <<"Remote rejected push", infos[i].summary>>
  ELSE IF "REMOTE_FAILURE" \in infos[i].flags THEN <<"Remote failure", infos[i].summary>>
  ELSE CheckInfos(infos, i + 1)

\* A push that never sets the upstream.
PushCallPlain(m) ==
  [cmd |-> "push", refspec |-> <<bname[m]>>, set_upstream |-> FALSE,
   rebase |-> FALSE, prompt |-> FALSE]

\* A push whose plain variant runs with the environment as it is.
PushCallPlainPrompts(m) ==
  IF ~track[m][active[m]]
  THEN [cmd |-> "push", refspec |-> <<bname[m], bname[m]>>, set_upstream |-> TRUE,
        rebase |-> FALSE, prompt |-> FALSE]
  ELSE [cmd |-> "push", refspec |-> <<bname[m]>>, set_upstream |-> FALSE,
        rebase |-> FALSE, prompt |-> TRUE]

\* The backend call push issues: origin.push(...) with its arguments;
\* prompt is false when env has GIT_TERMINAL_PROMPT = '0'.
PushCall(m) ==
  IF ~track[m][active[m]]
  THEN [cmd |-> "push", refspec |-> <<bname[m], bname[m]>>, set_upstream |-> TRUE,
        rebase |-> FALSE, prompt |-> FALSE]
  ELSE [cmd |-> "push", refspec |-> <<bname[m]>>, set_upstream |-> FALSE,
        rebase |-> FALSE, prompt |-> FALSE]

\* The remote accepts branch b of machine m: it exists and fast-forwards.
Accepts(m, b) ==
  /\ heads[m][b] # 0
  /\ rheads[b] \in AncestorsOrSelf(heads[m][b]) \cup {0}

Flagged(infos) == \E i \in 1..Len(infos) : infos[i].flags \cap ErrorFlags # {}

\* The backend's answers to a push: a failed command with its message, or
\* a list of statuses.
PushAnswers ==
  {[error |-> TRUE, msg |-> x, infos |-> <<>>] : x \in PushMessages}
  \cup {[error |-> FALSE, msg |-> {}, infos |-> x] : x \in InfoLists}
NoAnswer == [error |-> TRUE, msg |-> {}, infos |-> <<>>]

\* The remote branch moves only with a non-empty list of clean statuses,
\* which the backend gives only for a push the remote accepts.
Moves(ans) == ~ans.error /\ ans.infos # <<>> /\ ~Flagged(ans.infos)

Push(m, ans) ==
  IF ~Opened(m)
  THEN /\ ans = NoAnswer
       /\ call' = Raised(m, "push", NotInitialized, <<>>)
       /\ UNCHANGED <<ext, parent, wt, mvars, gitvars, edits>>
  ELSE IF ~HasOrigin(m)
  THEN /\ ans = NoAnswer
       /\ call' = Raised(m, "push", NoRemote, <<>>)
       /\ UNCHANGED <<ext, parent, wt, mvars, gitvars, edits>>
  ELSE
  LET bn == bname[m]
      c == PushCall(m)
      moved == Moves(ans)
      err == IF ans.error THEN <<ClassifyPush(ans.msg), "">> ELSE CheckInfos(ans.infos, 1)
  IN
  /\ moved => Accepts(m, bn)
  /\ rheads' = IF moved THEN [rheads EXCEPT ![bn] = heads[m][bn]] ELSE rheads
  /\ orefs' = IF moved THEN [orefs EXCEPT ![m][bn] = heads[m][bn]] ELSE orefs
  /\ track' = IF moved /\ c.set_upstream THEN [track EXCEPT ![m][bn] = TRUE] ELSE track
  /\ call' = Done(m, "push", IF err = NoError THEN "ok" ELSE "raised", err, <<>>,
                  <<>>, FALSE, <<[call |-> c, answer |-> ans]>>)
  /\ UNCHANGED <<ext, parent, wt, disk, handle, url, bname, origin, heads, active,
                 commits, edits>>

(***************************************************************************)
(* RemoteSyncEngine: pull.                                                 *)
(***************************************************************************)
PullFailed == "Failed to pull"
MergeFailed == "Failed to pull and merge divergent branches"
DivergentPhrases == {"divergent branches", "need to specify how to reconcile"}
PullMessages ==
  {{}, {"divergent branches"}, {"need to specify how to reconcile"},
   {"could not resolve host"}, {"divergent branches", "need to specify how to reconcile"}}

\* Three-way merge of one file: base, ours, theirs; -1 for a conflict.
Merge1(b, o, t) ==
  IF o = t THEN o ELSE IF o = b THEN t ELSE IF t = b THEN o ELSE -1

Merge3(b, o, t) ==
  [readme |-> IF o.readme = b.readme THEN t.readme ELSE o.readme,
   sub |-> [l \in Leaves |-> [f \in RelSet |-> Merge1(b.sub[l][f], o.sub[l][f], t.sub[l][f])]]]
MergeConflict(tree) == \E l \in Leaves, f \in RelSet : tree.sub[l][f] = -1

Max(S) == CHOOSE x \in S : \A y \in S : y <= x
MergeBase(a, b) ==
  LET common == AncestorsOrSelf(a) \cap AncestorsOrSelf(b) IN
  IF common = {} THEN 0 ELSE Max(common)

\* The commits a rebase replays: the non-merge commits on the first-parent
\* chain of c that are not in upstream, oldest first.
RECURSIVE ReplayList(_, _)
ReplayList(c, upstream) ==
  IF c = 0 \/ c \in upstream THEN <<>>
  ELSE ReplayList(commits[c].p1, upstream)
       \o (IF commits[c].p2 = 0 THEN <<c>> ELSE <<>>)

\* Replaying list[i..] onto the commit `onto` (0 <= onto); made holds the
\* commits created so far.  A commit whose change is already there is dropped.
RECURSIVE Replay(_, _, _, _)
Replay(list, i, onto, made) ==
  IF i > Len(list) THEN [ok |-> TRUE, head |-> onto, made |-> made]
  ELSE LET c == commits[list[i]]
           n == Len(commits)
           ontoTree == IF onto > n THEN made[onto - n].tree ELSE TreeAt(onto)
           t == Merge3(TreeAt(c.p1), ontoTree, c.tree) IN
       IF MergeConflict(t) THEN [ok |-> FALSE, head |-> onto, made |-> made]
       ELSE IF t = ontoTree THEN Replay(list, i + 1, onto, made)
       ELSE Replay(list, i + 1, n + Len(made) + 1, Append(made, Commit(onto, 0, t)))

\* What a successful backend pull of branch_name does to the checked-out
\* branch: [ok, head, made]; ok is FALSE when the backend cannot succeed.
Integrate(m, rebase) ==
  LET h == HeadCommit(m)
      r == rheads[bname[m]]
      stay == [ok |-> TRUE, head |-> h, made |-> <<>>]
      no == [ok |-> FALSE, head |-> h, made |-> <<>>]
  IN
  IF r = 0 \/ (rebase /\ Unstaged(m)) THEN no
  ELSE IF r \in AncestorsOrSelf(h) THEN stay
  ELSE IF h \in AncestorsOrSelf(r) THEN [stay EXCEPT !.head = r]
  ELSE IF rebase THEN Replay(ReplayList(h, AncestorsOrSelf(r)), 1, r, <<>>)
  ELSE LET t == Merge3(TreeAt(MergeBase(h, r)), TreeAt(h), TreeAt(r)) IN
       IF MergeConflict(t) THEN no
       ELSE [stay EXCEPT !.head = Len(commits) + 1, !.made = <<Commit(h, r, t)>>]

\* The tree of the head a backend pull leaves.
PulledTree(g) ==
  IF g.made # <<>> THEN g.made[Len(g.made)].tree ELSE TreeAt(g.head)

\* The backend can carry out the pull: it integrates, within the bound on
\* commits, and no local change stops the update of the working tree.
CanPull(m, rebase) ==
  LET g == Integrate(m, rebase) IN
  /\ g.ok
  /\ Len(commits) + Len(g.made) <= MaxCommits
  /\ ~Conflict(TreeAt(HeadCommit(m)), PulledTree(g), wt[m])

PullCall(m, rebase) ==
  [cmd |-> "pull", refspec |-> <<bname[m]>>, set_upstream |-> FALSE,
   rebase |-> rebase, prompt |-> TRUE]

PullAnswers == {[error |-> FALSE, msg |-> {}]} \cup {[error |-> TRUE, msg |-> x] : x \in PullMessages}
PullOk == [error |-> FALSE, msg |-> {}]

\* The changed files taken to be all the files of the new commit.
FilesOfNew(a, b) ==
  SelectSeq(<<<<"README.md">>,
              <<"profiles", "system", "filament/PLA.json">>,
              <<"profiles", "system", "machine/X1.json">>,
              <<"profiles", "user", "filament/PLA.json">>,
              <<"profiles", "user", "machine/X1.json">>>>,
            LAMBDA x : x \in DiffPaths(EmptyTree, b))

\* The paths of old_commit.diff(new_commit), in the order of the diff.
DiffOrder ==
  <<<<"README.md">>,
    <<"profiles", "system", "filament/PLA.json">>, <<"profiles", "system", "machine/X1.json">>,
    <<"profiles", "user", "filament/PLA.json">>, <<"profiles", "user", "machine/X1.json">>>>

\* The blob a tree holds at a path: 0 when there is none, -1 for the README
\* (its text is no profile's).  Profile contents are non-empty blobs.
Blob(t, p) ==
  IF Len(p) = 1 THEN (IF t.readme THEN -1 ELSE 0) ELSE t.sub[p[2]][p[3]]
Added(a, b) == {p \in DiffPaths(a, b) : Blob(a, p) = 0}
Deleted(a, b) == {p \in DiffPaths(a, b) : Blob(b, p) = 0}
Basename(p) == p[Len(p)]
Pos(p) == CHOOSE i \in 1..Len(DiffOrder) : DiffOrder[i] = p

\* The diff detects renames (GitPython passes -M): an added path whose blob
\* is that of a deleted path is paired with it, a deleted path of the same
\* file name first, each deleted path once.
RECURSIVE RenamePairs(_, _, _, _)
RenamePairs(a, b, i, used) ==
  IF i > Len(DiffOrder) THEN {}
  ELSE LET d == DiffOrder[i]
           cand == {s \in Deleted(a, b) \ used : Blob(a, s) = Blob(b, d)}
           same == {s \in cand : Basename(s) = Basename(d)}
           pool == IF same # {} THEN same ELSE cand
           s == CHOOSE x \in pool : \A y \in pool : Pos(x) <= Pos(y)
       IN IF d \in Added(a, b) /\ cand # {}
          THEN {<<s, d>>} \cup RenamePairs(a, b, i + 1, used \cup {s})
          ELSE RenamePairs(a, b, i + 1, used)

\* item.a_path of every entry of the diff: a rename is one entry, at the
\* place of the new path, whose a_path is the old path.
ChangedFiles(a, b) ==
  LET pairs == RenamePairs(a, b, 1, {})
      kept == SelectSeq(DiffOrder,
                LAMBDA p : p \in DiffPaths(a, b) /\ p \notin {x[1] : x \in pairs})
      a_path(p) == IF \E x \in pairs : x[2] = p
                   THEN (CHOOSE x \in pairs : x[2] = p)[1] ELSE p
  IN [i \in 1..Len(kept) |-> a_path(kept[i])]

\* A retry after any failure of the rebase-style pull.
RetryAlways(a) == a.error

\* The rebase-style pull failed with a message of divergent branches.
Retry(a) == a.error /\ a.msg \cap DivergentPhrases # {}

\* a1, a2: the backend's answers to the rebase-style and to the merge-style pull.
Pull(m, a1, a2) ==
  IF ~Opened(m)
  THEN /\ a1 = PullOk /\ a2 = PullOk
       /\ call' = Raised(m, "pull", NotInitialized, <<>>)
       /\ UNCHANGED <<ext, parent, wt, mvars, gitvars, edits>>
  ELSE IF ~HasOrigin(m)
  THEN /\ a1 = PullOk /\ a2 = PullOk
       /\ call' = Raised(m, "pull", NoRemote, <<>>)
       /\ UNCHANGED <<ext, parent, wt, mvars, gitvars, edits>>
  ELSE IF HeadCommit(m) = 0
  THEN \* old_commit = self.repo.head.commit: there is no commit at HEAD
       /\ a1 = PullOk /\ a2 = PullOk
       /\ call' = Raised(m, "pull", "ValueError", <<>>)
       /\ UNCHANGED <<ext, parent, wt, mvars, gitvars, edits>>
  ELSE
  LET bn == bname[m]
      old == HeadCommit(m)
      retry == Retry(a1)
      rebase == ~a1.error
      issued == <<[call |-> PullCall(m, TRUE), answer |-> a1]>>
                \o (IF retry THEN <<[call |-> PullCall(m, FALSE), answer |-> a2]>> ELSE <<>>)
      failed == IF ~a1.error THEN NoError
                ELSE IF ~retry THEN <<PullFailed, "">>
                ELSE IF a2.error THEN <<MergeFailed, "">>
                ELSE NoError
      g == Integrate(m, rebase)
      new == g.head
  IN
  /\ ~retry => a2 = a1
  /\ ~a1.error => CanPull(m, TRUE)
  /\ (retry /\ ~a2.error) => CanPull(m, FALSE)
  /\ IF failed # NoError
     THEN /\ call' = Done(m, "pull", "raised", failed, <<>>, <<>>, FALSE, issued)
          /\ UNCHANGED <<ext, parent, wt, mvars, gitvars, edits>>
     ELSE /\ commits' = commits \o g.made
          /\ heads' = [heads EXCEPT ![m][active[m]] = new]
          /\ orefs' = [orefs EXCEPT ![m][bn] = rheads[bn]]
          /\ wt' = [wt EXCEPT ![m] = Checkout(TreeAt(old), PulledTree(g), wt[m])]
          /\ call' = Done(m, "pull", "ok", NoError, <<>>,
                          IF new = old THEN <<>> ELSE ChangedFiles(TreeAt(old), PulledTree(g)),
                          new # old, issued)
          /\ UNCHANGED <<ext, parent, disk, handle, url, bname, origin, active, track,
                         rheads, edits>>

(***************************************************************************)
(* The system: two machines, their users, one remote repository.           *)
(***************************************************************************)
Urls == {"", "git@host:profiles.git"}

\* The lists of directories a configuration names (sync_paths).
PathLists ==
  {<<"/a/user">>, <<"/a/user", "/a/system">>, <<"/a/user", "/b/user">>,
   <<"/b/user", "/a/user", "/a/system">>}

\* The remote repository as its host created it: empty, or with a README.
RemoteInit ==
  \/ rheads = NoHeads /\ commits = <<>>
  \/ rheads = [NoHeads EXCEPT ![DefaultBranch] = 1] /\ commits = <<Commit(0, 0, ReadmeTree)>>

Profile == [f \in RelSet |-> IF f = RelPaths[1] THEN 1 ELSE 0]

Init ==
  /\ ext = [m \in Machines |-> [p \in Paths |->
              IF m = "A" /\ p = "/a/user" THEN Some(Profile) ELSE None]]
  /\ parent = [m \in Machines |-> [q \in Parents |-> m = "A" /\ q = "/a"]]
  /\ wt = [m \in Machines |-> NoTree]
  /\ disk = [m \in Machines |-> "absent"]
  /\ handle = [m \in Machines |-> FALSE]
  /\ url \in [Machines -> Urls]
  /\ bname \in [Machines -> BranchNames]
  /\ origin = [m \in Machines |-> ""]
  /\ heads = [m \in Machines |-> NoHeads]
  /\ active = [m \in Machines |-> DefaultBranch]
  /\ track = [m \in Machines |-> NoTrack]
  /\ orefs = [m \in Machines |-> NoHeads]
  /\ RemoteInit
  /\ call = Idle
  /\ edits = 0

Next ==
  \E m \in Machines :
    \/ \E ok \in BOOLEAN : InitRepository(m, ok)
    \/ \E u \in Urls, b \in BranchNames : NewManager(m, u, b)
    \/ \E ok \in BOOLEAN : EnsureBranch(m, ok)
    \/ \E ps \in PathLists : SyncFiles(m, ps)
    \/ \E ps \in PathLists : RestoreFiles(m, ps)
    \/ (\E message \in Messages, now \in Clock : CommitChanges(m, message, now))
    \/ \E ans \in PushAnswers : Push(m, ans)
    \/ \E a1, a2 \in PullAnswers : Pull(m, a1, a2)
    \/ \E p \in Paths : EditExt(m, p)

Spec == Init /\ [][Next]_vars

(***************************************************************************)
(* The tree synchroniser alone: machine A, its repository opened by        *)
(* init_repository without a URL, the user editing the profile             *)
(* directories between calls of sync_files and restore_files.              *)
(***************************************************************************)
TreeLists ==
  {<<"/a/user">>, <<"/a/system", "/b/user">>, <<"/a/user", "/b/user">>,
   <<"/b/user", "/a/user", "/a/system">>}

InitTree ==
  /\ ext = [m \in Machines |-> [p \in Paths |->
              IF m = "A" /\ p = "/a/user" THEN Some(Profile) ELSE None]]
  /\ parent = [m \in Machines |-> [q \in Parents |-> m = "A" /\ q = "/a"]]
  /\ wt = [m \in Machines |-> IF m = "A" THEN [NoTree EXCEPT !.readme = TRUE] ELSE NoTree]
  /\ disk = [m \in Machines |-> IF m = "A" THEN "repo" ELSE "absent"]
  /\ handle = [m \in Machines |-> m = "A"]
  /\ url = [m \in Machines |-> ""]
  /\ bname = [m \in Machines |-> DefaultBranch]
  /\ origin = [m \in Machines |-> ""]
  /\ heads = [m \in Machines |-> IF m = "A" THEN [NoHeads EXCEPT ![DefaultBranch] = 1] ELSE NoHeads]
  /\ active = [m \in Machines |-> DefaultBranch]
  /\ track = [m \in Machines |-> NoTrack]
  /\ orefs = [m \in Machines |-> NoHeads]
  /\ rheads = NoHeads
  /\ commits = <<Commit(0, 0, ReadmeTree)>>
  /\ call = Idle
  /\ edits = 0

NextTree ==
  \/ \E p \in Paths : EditExt("A", p)
  \/ \E ps \in TreeLists : SyncFiles("A", ps)
  \/ \E ps \in TreeLists : RestoreFiles("A", ps)

SpecTree == InitTree /\ [][NextTree]_vars

(***************************************************************************)
(* Claims about the tree synchroniser (checked under SpecTree).            *)
(***************************************************************************)
Returned(op) == call.op = op /\ call.out = "ok"
Before == call.pre[1]

\* Directory o exists and holds exactly the files of directory d, each
\* with the same content.
HoldsExactly(o, d) == o # None /\ \A f \in RelSet : o[1][f] = d[1][f]

\* Source args[i] exists and no later existing source has its leaf name.
LastOfLeaf(m, args, i) ==
  /\ Exists(ext[m][args[i]])
  /\ \A j \in (i + 1)..Len(args) :
       Exists(ext[m][args[j]]) => LeafOf(args[j]) # LeafOf(args[i])

\* C1 as stated: after sync_files returns, for EVERY source path that
\* exists the subtree profiles/<leaf> holds exactly the files of that source.
C1_EverySourceReplaced ==
  Returned("sync_files") =>
    \A i \in 1..Len(call.args) :
      Exists(ext[call.m][call.args[i]]) =>
        HoldsExactly(wt[call.m].sub[LeafOf(call.args[i])], ext[call.m][call.args[i]])

\* C1 (amended): after sync_files returns, for every existing source path
\* that is the last existing one of its leaf name in the list, the subtree
\* profiles/<leaf> holds exactly the files of that source, with the same
\* content; nothing an earlier sync left there survives.
C1_FullReplace ==
  Returned("sync_files") =>
    \A i \in 1..Len(call.args) :
      LastOfLeaf(call.m, call.args, i) =>
        HoldsExactly(wt[call.m].sub[LeafOf(call.args[i])], ext[call.m][call.args[i]])

\* A sync that found, in the subtree, a file of an earlier sync that the
\* source no longer has.
C1_Witness ==
  /\ Returned("sync_files")
  /\ \E i \in 1..Len(call.args), f \in RelSet :
       /\ LastOfLeaf(call.m, call.args, i)
       /\ WtFile(Before.wt, LeafOf(call.args[i]), f) # 0
       /\ ext[call.m][call.args[i]][1][f] = 0

\* C2: restore_files leaves a destination whose subtree is absent as it
\* was; every other destination holds exactly the files of its subtree and
\* its parent directory exists.  Without the managed root it returns the
\* empty list and changes no destination.
C2_Restore ==
  Returned("restore_files") =>
    /\ ~wt[call.m].root =>
         /\ call.ret = <<>>
         /\ ext[call.m] = Before.ext
         /\ parent[call.m] = Before.parent
    /\ wt[call.m].root =>
         \A i \in 1..Len(call.args) :
           LET p == call.args[i]
               subtree == wt[call.m].sub[LeafOf(p)] IN
           IF subtree = None
           THEN ext[call.m][p] = Before.ext[p]
           ELSE /\ HoldsExactly(ext[call.m][p], subtree)
                /\ parent[call.m][ParentOf(p)]

\* A restore that skipped an existing destination without subtree and
\* restored another one whose parent directory was missing.
C2_Witness ==
  /\ Returned("restore_files")
  /\ \E i, j \in 1..Len(call.args) :
       /\ wt[call.m].sub[LeafOf(call.args[i])] = None
       /\ Exists(ext[call.m][call.args[i]])
       /\ wt[call.m].sub[LeafOf(call.args[j])] # None
       /\ ~Before.parent[ParentOf(call.args[j])]

(***************************************************************************)
(* Repository and branch: machine A opening its repository and ensuring    *)
(* its branch, against a remote that is empty, holds the default branch,   *)
(* or holds in addition the branch "pc" some machine pushed before.        *)
(***************************************************************************)
PushedTree == [ReadmeTree EXCEPT !.sub["user"] = [f \in RelSet |-> 2]]

RemoteStates ==
  \/ rheads = NoHeads /\ commits = <<>>
  \/ rheads = [NoHeads EXCEPT ![DefaultBranch] = 1] /\ commits = <<Commit(0, 0, ReadmeTree)>>
  \/ /\ rheads = [b \in BranchNames |-> IF b = DefaultBranch THEN 1 ELSE 2]
     /\ commits = <<Commit(0, 0, ReadmeTree), Commit(1, 0, PushedTree)>>

InitBranch ==
  /\ ext = [m \in Machines |-> [p \in Paths |->
              IF m = "A" /\ p = "/a/user" THEN Some(Profile) ELSE None]]
  /\ parent = [m \in Machines |-> [q \in Parents |-> m = "A" /\ q = "/a"]]
  /\ wt = [m \in Machines |-> NoTree]
  /\ disk = [m \in Machines |-> "absent"]
  /\ handle = [m \in Machines |-> FALSE]
  /\ url \in {[m \in Machines |-> IF m = "A" THEN u ELSE ""] : u \in Urls}
  /\ bname \in {[m \in Machines |-> IF m = "A" THEN b ELSE DefaultBranch] : b \in BranchNames}
  /\ origin = [m \in Machines |-> ""]
  /\ heads = [m \in Machines |-> NoHeads]
  /\ active = [m \in Machines |-> DefaultBranch]
  /\ track = [m \in Machines |-> NoTrack]
  /\ orefs = [m \in Machines |-> NoHeads]
  /\ RemoteStates
  /\ call = Idle
  /\ edits = 0

NextBranch ==
  \/ \E ok \in BOOLEAN : InitRepository("A", ok)
  \/ \E u \in Urls, b \in BranchNames : NewManager("A", u, b)
  \/ \E ok \in BOOLEAN : EnsureBranch("A", ok)
  \/ SyncFiles("A", <<"/a/user">>)
  \/ (\E message \in Messages, now \in Clock : CommitChanges("A", message, now))

SpecBranch == InitBranch /\ [][NextBranch]_vars

\* C9: whenever ensure_branch returns normally, the local branch
\* branch_name exists and is the checked-out branch.
C9_BranchActive ==
  Returned("ensure_branch") =>
    /\ heads[call.m][bname[call.m]] # 0
    /\ active[call.m] = bname[call.m]

\* ensure_branch returned after creating the branch and leaving another one.
C9_Witness ==
  /\ Returned("ensure_branch")
  /\ Before.heads[bname[call.m]] = 0
  /\ Before.active # bname[call.m]

\* ensure_branch, returned or not, found the local branch missing and
\* created it.
Created == call.op = "ensure_branch" /\ Before.handle
           /\ Before.heads[bname[call.m]] = 0 /\ heads[call.m][bname[call.m]] # 0

\* C10: a missing local branch is created at the remote branch of the same
\* name, tracking it, when a remote is configured and the remote has that
\* branch after the fetch; in every other case it is created at the commit
\* HEAD was at, without tracking reference.
C10_CreatedFrom ==
  Created =>
    LET m == call.m
        b == bname[m]
        found == Before.origin # "" /\ call.backend[1] = "fetch" /\ rheads[b] # 0 IN
    IF found
    THEN heads[m][b] = rheads[b] /\ track[m][b]
    ELSE heads[m][b] = Before.heads[Before.active] /\ ~track[m][b]

\* The branch was created at a remote branch that is not where HEAD was.
C10_Witness ==
  /\ Created /\ call.out = "ok"
  /\ track[call.m][bname[call.m]]
  /\ heads[call.m][bname[call.m]] # Before.heads[Before.active]
  /\ heads[call.m][bname[call.m]] = rheads[bname[call.m]]

(***************************************************************************)
(* Two machines on one branch of one remote: each clones the remote,       *)
(* ensures the branch "pc", copies its profile directory in, commits,      *)
(* pushes and pulls.  Machine B's profiles differ from machine A's.        *)
(***************************************************************************)
OtherProfile(c) == [f \in RelSet |-> IF f = RelPaths[2] THEN c ELSE 0]

InitRemote ==
  /\ \E c \in {1, 2} :
       ext = [m \in Machines |-> [p \in Paths |->
                IF p # "/a/user" THEN None
                ELSE IF m = "A" THEN Some(Profile) ELSE Some(OtherProfile(c))]]
  /\ parent = [m \in Machines |-> [q \in Parents |-> q = "/a"]]
  /\ wt = [m \in Machines |-> NoTree]
  /\ disk = [m \in Machines |-> "absent"]
  /\ handle = [m \in Machines |-> FALSE]
  /\ url = [m \in Machines |-> "git@host:profiles.git"]
  /\ bname = [m \in Machines |-> "pc"]
  /\ origin = [m \in Machines |-> ""]
  /\ heads = [m \in Machines |-> NoHeads]
  /\ active = [m \in Machines |-> DefaultBranch]
  /\ track = [m \in Machines |-> NoTrack]
  /\ orefs = [m \in Machines |-> NoHeads]
  /\ rheads = [NoHeads EXCEPT ![DefaultBranch] = 1]
  /\ commits = <<Commit(0, 0, ReadmeTree)>>
  /\ call = Idle
  /\ edits = 0

CleanPush == [error |-> FALSE, msg |-> {}, infos |-> <<Status({"FAST_FORWARD"}, "a..b")>>]

RejectedPush == [error |-> FALSE, msg |-> {}, infos |-> <<Status({"ERROR", "REJECTED"}, "fetch first")>>]

NextRemote ==
  \/ \E m \in Machines :
       \/ InitRepository(m, TRUE)
       \/ EnsureBranch(m, TRUE)
       \/ SyncFiles(m, <<"/a/user">>)
       \/ CommitChanges(m, None, Morning)
       \/ \E ans \in {CleanPush, RejectedPush} : Push(m, ans)
  \/ RestoreFiles("A", <<"/a/user">>)
  \/ \E a1, a2 \in PullAnswers : Pull("A", a1, a2)

SpecRemote == InitRemote /\ [][NextRemote]_vars

(***************************************************************************)
(* Machine A pushing, with every answer the backend may give.              *)
(***************************************************************************)
NextPush ==
  \/ \E ok \in BOOLEAN : InitRepository("A", ok)
  \/ EnsureBranch("A", TRUE)
  \/ SyncFiles("A", <<"/a/user">>)
  \/ CommitChanges("A", None, Morning)
  \/ \E ans \in PushAnswers : Push("A", ans)

SpecPush == InitBranch /\ [][NextPush]_vars

(***************************************************************************)
(* Claims about pull (checked under SpecRemote).                           *)
(***************************************************************************)
Issued == call.backend
Divergent(ans) ==
  ans.error /\ ("divergent branches" \in ans.msg
                \/ "need to specify how to reconcile" \in ans.msg)

\* C4: the first backend pull is rebase-style; a merge-style pull is issued
\* once, exactly when the rebase-style pull failed with a message of
\* divergent branches; when the retry fails pull raises the divergent-
\* history error; any other failure of the rebase-style pull raises the
\* generic pull error without retry; at most two backend pulls are issued
\* and pull returns normally only when the last one succeeded.
C4_PullStateMachine ==
  (call.op = "pull" /\ Before.handle /\ Before.origin # ""
   /\ Before.heads[Before.active] # 0) =>
    /\ Len(Issued) \in {1, 2}
    /\ Issued[1].call.cmd = "pull" /\ Issued[1].call.rebase
    /\ Len(Issued) = 2 <=> Divergent(Issued[1].answer)
    /\ Len(Issued) = 2 =>
         /\ Issued[2].call.cmd = "pull" /\ ~Issued[2].call.rebase
         /\ Issued[2].answer.error => call.out = "raised" /\ call.err[1] = MergeFailed
    /\ (Len(Issued) = 1 /\ Issued[1].answer.error) =>
         call.out = "raised" /\ call.err[1] = PullFailed
    /\ call.out = "ok" <=> ~Issued[Len(Issued)].answer.error

\* A pull that returned normally after the merge-style retry and brought
\* changes.
C4_Witness ==
  /\ Returned("pull")
  /\ Len(Issued) = 2
  /\ call.flag

\* The files whose content differs between commits a and b.
Differing(a, b) ==
  {<<"profiles", x[1], x[2]>> :
     x \in {y \in Leaves \X RelSet :
              commits[a].tree.sub[y[1]][y[2]] # commits[b].tree.sub[y[1]][y[2]]}}
  \cup {<<"README.md">> : x \in {y \in {1} : commits[a].tree.readme # commits[b].tree.readme}}
FileIn(c, p) == IF Len(p) = 1 THEN commits[c].tree.readme ELSE commits[c].tree.sub[p[2]][p[3]] # 0
SameBlob(a, p, b, q) ==
  Len(p) = 3 /\ Len(q) = 3 /\ commits[a].tree.sub[p[2]][p[3]] = commits[b].tree.sub[q[2]][q[3]]

\* C5: a pull that returns normally returns (false, []) when HEAD is the
\* commit it was before, and otherwise (true, P) with P the paths of the
\* diff from the old to the new HEAD commit, each once: every path of P
\* differs between the two commits, every modified or deleted file is in P,
\* and every added file is in P unless the diff reports it as the rename of
\* a deleted file of P.
C5_PullResult ==
  Returned("pull") =>
    LET old == Before.heads[Before.active]
        new == heads[call.m][active[call.m]]
        P == {call.ret[i] : i \in 1..Len(call.ret)} IN
    IF new = old
    THEN ~call.flag /\ call.ret = <<>>
    ELSE /\ call.flag
         /\ Len(call.ret) = Cardinality(P)
         /\ P \subseteq Differing(old, new)
         /\ \A p \in Differing(old, new) :
              \/ p \in P
              \/ /\ ~FileIn(old, p)
                 /\ \E q \in P : ~FileIn(new, q) /\ SameBlob(old, q, new, p)

\* A pull that moved HEAD to a commit that removes one file and adds another.
C5_Witness ==
  /\ Returned("pull")
  /\ call.flag
  /\ Len(call.ret) = 2
  /\ heads[call.m][active[call.m]] = rheads[bname[call.m]]

(***************************************************************************)
(* Claims about push (checked under SpecPush).                             *)
(***************************************************************************)
\* C6: a push on an opened repository with a remote issues exactly one
\* backend push: upstream-setting with refspec <branch_name>:<branch_name>
\* when the active branch has no tracking branch, a plain push of
\* branch_name when it has one.  (Without repository or remote push raises
\* before any backend call.)
C6_PushCall ==
  call.op = "push" =>
    IF Before.handle /\ Before.origin # ""
    THEN /\ Len(Issued) = 1
         /\ Issued[1].call.cmd = "push"
         /\ IF Before.track[Before.active]
            THEN /\ ~Issued[1].call.set_upstream
                 /\ Issued[1].call.refspec = <<bname[call.m]>>
            ELSE /\ Issued[1].call.set_upstream
                 /\ Issued[1].call.refspec = <<bname[call.m], bname[call.m]>>
    ELSE Issued = <<>> /\ call.out = "raised"

\* A first push: upstream-setting, accepted, creating the remote branch.
C6_Witness ==
  /\ Returned("push")
  /\ Issued[1].call.set_upstream
  /\ Before.rheads[bname[call.m]] = 0
  /\ rheads[bname[call.m]] = heads[call.m][bname[call.m]]
  /\ track[call.m][bname[call.m]]

HasErrorFlag(st) ==
  \/ "ERROR" \in st.flags \/ "REJECTED" \in st.flags
  \/ "REMOTE_REJECTED" \in st.flags \/ "REMOTE_FAILURE" \in st.flags

\* C7: when a status the backend returned carries an error, rejected,
\* remote-rejected or remote-failure flag, push raises, and the error
\* carries the summary of the first such status.
C7_PushStatusError ==
  (call.op = "push" /\ Len(Issued) = 1 /\ ~Issued[1].answer.error) =>
    LET infos == Issued[1].answer.infos IN
    \A i \in 1..Len(infos) :
      (HasErrorFlag(infos[i]) /\ \A j \in 1..(i - 1) : ~HasErrorFlag(infos[j])) =>
        call.out = "raised" /\ call.err[2] = infos[i].summary

\* A push that raised for the second status, the first one being clean.
C7_Witness ==
  /\ call.op = "push" /\ call.out = "raised"
  /\ Len(Issued) = 1 /\ ~Issued[1].answer.error
  /\ Len(Issued[1].answer.infos) = 2
  /\ ~HasErrorFlag(Issued[1].answer.infos[1])
  /\ Issued[1].answer.infos[2].flags = {"REMOTE_FAILURE"}
  /\ call.err[2] = Issued[1].answer.infos[2].summary

(***************************************************************************)
(* Claims about commit_changes (checked under SpecBranch).                 *)
(***************************************************************************)
\* Every file of the working tree w is as commit c has it, and c has no
\* other file: nothing is modified, deleted or untracked.
NothingToCommit(w, c) ==
  /\ w.readme = (c # 0 /\ commits[c].tree.readme)
  /\ \A l \in Leaves, f \in RelSet :
       WtFile(w, l, f) = IF c = 0 THEN 0 ELSE commits[c].tree.sub[l][f]

\* C8: commit_changes returns false and creates no commit when the working
\* tree has nothing to commit; otherwise it creates exactly one commit, on
\* the current branch, and returns true.
C8_Commit ==
  Returned("commit_changes") =>
    LET m == call.m
        old == Before.heads[Before.active] IN
    IF NothingToCommit(Before.wt, old)
    THEN ~call.flag /\ Len(commits) = Before.ncommits /\ heads[m] = Before.heads
    ELSE /\ call.flag
         /\ Len(commits) = Before.ncommits + 1
         /\ heads[m] = [Before.heads EXCEPT ![active[m]] = Len(commits)]
         /\ commits[Len(commits)].p1 = old
         /\ NothingToCommit(wt[m], Len(commits))

\* A commit created on the branch "pc" after ensure_branch switched to it.
C8_Witness ==
  /\ Returned("commit_changes")
  /\ call.flag
  /\ active[call.m] = "pc"
  /\ heads[call.m]["pc"] # heads[call.m][DefaultBranch]

(***************************************************************************)
(* The round trip between two machines.  Machine A clones, ensures the     *)
(* branch, and then, any number of times, edits its profile directory      *)
(* /a/user and runs sync_files, commit_changes and push in a row; machine  *)
(* B, which has no repository yet, then clones, ensures the branch, pulls  *)
(* and restores to /b/user.  The last call recorded in `call` orders the   *)
(* steps, and A is at rest once B has cloned.                              *)
(***************************************************************************)
StaleDir == [f \in RelSet |-> IF f = RelPaths[2] THEN 1 ELSE 0]

InitRound ==
  /\ \E o \in {None, Some(StaleDir)} :
       /\ ext = [m \in Machines |-> [p \in Paths |->
                   IF m = "A" /\ p = "/a/user" THEN Some(Profile)
                   ELSE IF m = "B" /\ p = "/b/user" THEN o ELSE None]]
       /\ parent = [m \in Machines |-> [q \in Parents |->
                      IF m = "A" THEN q = "/a" ELSE q = "/b" /\ o # None]]
  /\ wt = [m \in Machines |-> NoTree]
  /\ disk = [m \in Machines |-> "absent"]
  /\ handle = [m \in Machines |-> FALSE]
  /\ url = [m \in Machines |-> "git@host:profiles.git"]
  /\ bname = [m \in Machines |-> "pc"]
  /\ origin = [m \in Machines |-> ""]
  /\ heads = [m \in Machines |-> NoHeads]
  /\ active = [m \in Machines |-> DefaultBranch]
  /\ track = [m \in Machines |-> NoTrack]
  /\ orefs = [m \in Machines |-> NoHeads]
  /\ rheads = [NoHeads EXCEPT ![DefaultBranch] = 1]
  /\ commits = <<Commit(0, 0, ReadmeTree)>>
  /\ call = Idle
  /\ edits = 0

After(m, op) == call.m = m /\ call.op = op /\ call.out = "ok"
Resting == disk["B"] = "absent"

OpenA == Resting /\ ~handle["A"] /\ InitRepository("A", TRUE)
BranchA == Resting /\ After("A", "init_repository") /\ EnsureBranch("A", TRUE)
EditA == Resting /\ EditExt("A", "/a/user") /\ Exists(ext'["A"]["/a/user"])
SyncA == Resting /\ active["A"] = bname["A"] /\ SyncFiles("A", <<"/a/user">>)
CommitA == Resting /\ After("A", "sync_files") /\ CommitChanges("A", None, Morning)
PushA ==
  /\ Resting /\ After("A", "commit_changes")
  /\ \E ans \in {CleanPush, RejectedPush} : Push("A", ans)
CloneB == Resting /\ After("A", "push") /\ \E ok \in BOOLEAN : InitRepository("B", ok)
BranchB == After("B", "init_repository") /\ \E ok \in BOOLEAN : EnsureBranch("B", ok)
PullB == After("B", "ensure_branch") /\ \E a1, a2 \in PullAnswers : Pull("B", a1, a2)
RestoreB == After("B", "pull") /\ RestoreFiles("B", <<"/b/user">>)

NextRound ==
  \/ OpenA \/ BranchA \/ EditA \/ SyncA \/ CommitA \/ PushA
  \/ CloneB \/ BranchB \/ PullB \/ RestoreB

SpecRound == InitRound /\ [][NextRound]_vars

\* C3: when machine A has run sync_files on the source /a/user, then
\* commit_changes and push, and machine B has then cloned the remote,
\* ensured the same branch, pulled and run restore_files on /b/user, B's
\* /b/user holds every file of A's /a/user with the same content.
C3_RoundTrip ==
  (After("B", "restore_files") /\ Exists(ext["A"]["/a/user"])) =>
    \A f \in RelSet :
      ext["A"]["/a/user"][1][f] # 0 =>
        /\ Exists(ext["B"]["/b/user"])
        /\ ext["B"]["/b/user"][1][f] = ext["A"]["/a/user"][1][f]

\* B restored both files of A's source over a destination that held a
\* stale file, from a commit A made after a first one.
C3_Witness ==
  /\ After("B", "restore_files")
  /\ Exists(ext["A"]["/a/user"])
  /\ ext["A"]["/a/user"][1][RelPaths[1]] = 2
  /\ ext["A"]["/a/user"][1][RelPaths[2]] = 2
  /\ ext["B"]["/b/user"] = ext["A"]["/a/user"]
  /\ Before.ext["/b/user"] = Some(StaleDir)
  /\ Len(commits) > 2

(***************************************************************************)
(* Opening the repository.  Between commands (each command builds a new    *)
(* GitManager) the user may give another repo_url, a second address of     *)
(* the same remote repository included, and may remove repo_path or leave  *)
(* a directory there that is no repository.                                *)
(***************************************************************************)
OtherUrl == "https://host/profiles.git"
OpenUrls == Urls \cup {OtherUrl}

\* repo_path is removed (d = "absent") or replaced by a directory that is
\* no repository (d = "invalid") while no manager holds it.
LoseRepo(m, d) ==
  /\ ~handle[m]
  /\ disk[m] = "repo"
  /\ disk' = [disk EXCEPT ![m] = d]
  /\ wt' = [wt EXCEPT ![m] = NoTree]
  /\ origin' = [origin EXCEPT ![m] = ""]
  /\ heads' = [heads EXCEPT ![m] = NoHeads]
  /\ active' = [active EXCEPT ![m] = DefaultBranch]
  /\ track' = [track EXCEPT ![m] = NoTrack]
  /\ orefs' = [orefs EXCEPT ![m] = NoHeads]
  /\ call' = Idle
  /\ UNCHANGED <<ext, parent, handle, url, bname, gitvars, edits>>

InitOpen ==
  /\ ext = [m \in Machines |-> [p \in Paths |->
              IF m = "A" /\ p = "/a/user" THEN Some(Profile) ELSE None]]
  /\ parent = [m \in Machines |-> [q \in Parents |-> m = "A" /\ q = "/a"]]
  /\ wt = [m \in Machines |-> NoTree]
  /\ disk \in {[m \in Machines |-> IF m = "A" THEN d ELSE "absent"] : d \in {"absent", "invalid"}}
  /\ handle = [m \in Machines |-> FALSE]
  /\ url \in {[m \in Machines |-> IF m = "A" THEN u ELSE ""] : u \in OpenUrls}
  /\ bname = [m \in Machines |-> DefaultBranch]
  /\ origin = [m \in Machines |-> ""]
  /\ heads = [m \in Machines |-> NoHeads]
  /\ active = [m \in Machines |-> DefaultBranch]
  /\ track = [m \in Machines |-> NoTrack]
  /\ orefs = [m \in Machines |-> NoHeads]
  /\ RemoteStates
  /\ call = Idle
  /\ edits = 0

NextOpen ==
  \/ \E ok \in BOOLEAN : InitRepository("A", ok)
  \/ \E u \in OpenUrls : NewManager("A", u, DefaultBranch)
  \/ \E d \in {"absent", "invalid"} : LoseRepo("A", d)
  \/ SyncFiles("A", <<"/a/user">>)
  \/ CommitChanges("A", None, Morning)

SpecOpen == InitOpen /\ [][NextOpen]_vars

(***************************************************************************)
(* Claims about branch discovery (checked under SpecBranch).               *)
(***************************************************************************)
\* C11: when the fetch of branch discovery fails, ensure_branch does not
\* fail: it creates the local branch from HEAD, without tracking, checks it
\* out and returns normally.
C11_FetchFailureNotFatal ==
  (call.op = "ensure_branch" /\ Before.handle /\ Len(Issued) = 2
   /\ Issued[1] = "fetch failed") =>
    /\ call.out = "ok"
    /\ Issued[2] = "create from HEAD"
    /\ active[call.m] = bname[call.m]
    /\ heads[call.m][bname[call.m]] = Before.heads[Before.active]
    /\ heads[call.m][bname[call.m]] # 0
    /\ ~track[call.m][bname[call.m]]

(***************************************************************************)
(* Claims about init_repository (checked under SpecOpen).                  *)
(***************************************************************************)
\* The repository of machine m is as it was before the call: no branch, no
\* commit and no file of the working tree has changed.
RepositoryKept(m) ==
  /\ disk[m] = "repo" /\ Before.disk = "repo"
  /\ heads[m] = Before.heads
  /\ active[m] = Before.active
  /\ track[m] = Before.track
  /\ wt[m] = Before.wt
  /\ Len(commits) = Before.ncommits

\* C12: init_repository on a path that holds a valid repository succeeds
\* without clone and without re-initialisation; afterwards 'origin' has the
\* URL repo_url when repo_url is non-empty (updated or added), and the
\* remote configuration is as it was when repo_url is empty.
C12_OpenValid ==
  (call.op = "init_repository" /\ Before.disk = "repo") =>
    /\ call.out = "ok"
    /\ Issued = <<"open">>
    /\ handle[call.m]
    /\ RepositoryKept(call.m)
    /\ origin[call.m] = IF url[call.m] # "" THEN url[call.m] ELSE Before.origin

\* A repository whose remote had another URL is opened and the URL updated.
C12_Witness ==
  /\ Returned("init_repository")
  /\ Before.disk = "repo"
  /\ Before.origin = OtherUrl
  /\ url[call.m] = "git@host:profiles.git"
  /\ origin[call.m] = url[call.m]
  /\ Len(commits) > 2

\* What init_repository leaves on a path that held no repository: a clone
\* of the remote with 'origin' at repo_url, or a new repository with the
\* bootstrap commit and no remote.
CreatedAnew(m) ==
  IF url[m] # ""
  THEN /\ Issued[Len(Issued)] = "clone"
       /\ call.out = "ok" =>
            /\ disk[m] = "repo" /\ origin[m] = url[m]
            /\ heads[m] = [NoHeads EXCEPT ![DefaultBranch] = rheads[DefaultBranch]]
            /\ Len(commits) = Before.ncommits
       /\ call.out # "ok" => disk[m] = "absent" /\ Len(commits) = Before.ncommits
  ELSE /\ Issued[Len(Issued)] = "init"
       /\ call.out = "ok"
       /\ disk[m] = "repo" /\ origin[m] = ""
       /\ Len(commits) = Before.ncommits + 1
       /\ heads[m] = [NoHeads EXCEPT ![DefaultBranch] = Len(commits)]

\* C13: init_repository removes the directory at repo_path exactly when the
\* path exists and holds no valid repository; a valid repository is kept
\* whatever repo_url is; after the removal it goes on as for a path that
\* does not exist: clone when repo_url is non-empty, new repository when
\* it is empty.
C13_RemoveOnlyInvalid ==
  call.op = "init_repository" =>
    /\ ("rmtree" \in {Issued[i] : i \in 1..Len(Issued)}) <=> Before.disk = "invalid"
    /\ Before.disk = "repo" => RepositoryKept(call.m)
    /\ Before.disk # "repo" => CreatedAnew(call.m)
    /\ Before.disk = "invalid" =>
         Issued = <<"rmtree", IF url[call.m] # "" THEN "clone" ELSE "init">>
    /\ Before.disk = "absent" =>
         Issued = <<IF url[call.m] # "" THEN "clone" ELSE "init">>

\* A directory that is no repository is removed and a new local repository
\* is created in its place.
C13_Witness ==
  /\ Returned("init_repository")
  /\ Before.disk = "invalid"
  /\ url[call.m] = ""
  /\ Issued = <<"rmtree", "init">>
  /\ disk[call.m] = "repo"

\* C14 as stated: on a path that exists and holds no valid repository,
\* init_repository re-creates the repository when repo_url is empty and
\* fails when repo_url is non-empty.
C14_InvalidFatalWithUrl ==
  (call.op = "init_repository" /\ Before.disk = "invalid") =>
    IF url[call.m] = ""
    THEN call.out = "ok" /\ disk[call.m] = "repo"
    ELSE call.out = "raised"

\* C14, amended: on a path that exists and holds no valid repository,
\* init_repository removes the path and re-creates the repository: a new
\* local repository when repo_url is empty; a clone of repo_url when it is
\* non-empty, and then it fails, with the clone error, only when the clone
\* fails.
C14_InvalidRecovered ==
  (call.op = "init_repository" /\ Before.disk = "invalid") =>
    /\ Issued[1] = "rmtree"
    /\ IF url[call.m] = ""
       THEN /\ call.out = "ok" /\ Issued[2] = "init"
            /\ disk[call.m] = "repo" /\ handle[call.m]
            /\ heads[call.m][DefaultBranch] = Len(commits)
            /\ commits[Len(commits)].tree = ReadmeTree
       ELSE /\ Issued[2] = "clone"
            /\ \/ /\ call.out = "ok"
                  /\ disk[call.m] = "repo" /\ handle[call.m]
                  /\ origin[call.m] = url[call.m]
                  /\ heads[call.m][DefaultBranch] = rheads[DefaultBranch]
               \/ /\ call.out = "raised"
                  /\ call.err[1] = "Failed to clone repository"
                  /\ disk[call.m] = "absent"

\* A directory that is no repository, with a repo_url given, is removed and
\* replaced by a clone holding the remote's commits.
C14_Witness ==
  /\ Returned("init_repository")
  /\ Before.disk = "invalid"
  /\ url[call.m] # ""
  /\ disk[call.m] = "repo"
  /\ heads[call.m][DefaultBranch] = 1

\* C15: on a path that does not exist, with a non-empty repo_url,
\* init_repository clones; when the clone fails it raises the clone error,
\* creates no local repository in its place, and the handle of the manager
\* stays unset.
C15_CloneOrFail ==
  (call.op = "init_repository" /\ Before.disk = "absent" /\ url[call.m] # "") =>
    /\ Issued = <<"clone">>
    /\ Len(commits) = Before.ncommits
    /\ \/ /\ call.out = "ok"
          /\ disk[call.m] = "repo" /\ handle[call.m]
          /\ origin[call.m] = url[call.m]
          /\ heads[call.m][DefaultBranch] = rheads[DefaultBranch]
       \/ /\ call.out = "raised"
          /\ call.err[1] = "Failed to clone repository"
          /\ disk[call.m] = "absent"
          /\ heads[call.m] = NoHeads
          /\ ~Before.handle /\ ~handle[call.m]

\* A clone into a path that did not exist has failed.
C15_Witness ==
  /\ call.op = "init_repository" /\ call.out = "raised"
  /\ Before.disk = "absent"
  /\ url[call.m] = OtherUrl
  /\ ~handle[call.m]
  /\ disk[call.m] = "absent"

\* C16: on a path that does not exist, with an empty repo_url,
\* init_repository creates a repository with exactly one bootstrap commit,
\* which holds the README alone and is the HEAD of the default branch; a
\* further init_repository on the path adds no commit.
C16_Bootstrap ==
  call.op = "init_repository" =>
    /\ (Before.disk = "absent" /\ url[call.m] = "") =>
         /\ call.out = "ok" /\ Issued = <<"init">>
         /\ disk[call.m] = "repo" /\ handle[call.m]
         /\ Len(commits) = Before.ncommits + 1
         /\ commits[Len(commits)] = Commit(0, 0, ReadmeTree)
         /\ active[call.m] = DefaultBranch
         /\ heads[call.m] = [NoHeads EXCEPT ![DefaultBranch] = Len(commits)]
         /\ wt[call.m].readme
    /\ Before.disk = "repo" =>
         /\ Len(commits) = Before.ncommits
         /\ heads[call.m] = Before.heads

\* A further init_repository on a repository that was created locally and
\* has the bootstrap commit and a later one.
C16_Witness ==
  /\ Returned("init_repository")
  /\ Before.disk = "repo"
  /\ Before.origin = "" /\ url[call.m] = ""
  /\ heads[call.m][DefaultBranch] > 1
  /\ commits[heads[call.m][DefaultBranch]].p1 # 0
  /\ commits[commits[heads[call.m][DefaultBranch]].p1] = Commit(0, 0, ReadmeTree)

\* C17: a repository created with an empty repo_url and opened later with
\* a non-empty one gets that URL as its remote 'origin', without clone and
\* with its branches, commits and files kept; opening a repository that
\* already has a remote does not fail.
C17_AttachLater ==
  (call.op = "init_repository" /\ Before.disk = "repo") =>
    /\ call.out = "ok"
    /\ (Before.origin = "" /\ url[call.m] # "") =>
         /\ origin[call.m] = url[call.m]
         /\ "clone" \notin {Issued[i] : i \in 1..Len(Issued)}
         /\ RepositoryKept(call.m)

\* A local-only repository with a commit of its own gets its remote.
C17_Witness ==
  /\ Returned("init_repository")
  /\ Before.disk = "repo" /\ Before.origin = ""
  /\ origin[call.m] = "git@host:profiles.git"
  /\ heads[call.m][DefaultBranch] # 0
  /\ commits[heads[call.m][DefaultBranch]].p1 # 0
  /\ rheads[DefaultBranch] # heads[call.m][DefaultBranch]

(***************************************************************************)
(* Every operation of a manager, in any order, before and after            *)
(* init_repository, on a repository with or without a remote; a new        *)
(* manager of the same configuration may take over at any time.            *)
(***************************************************************************)
NextGuard ==
  \/ \E ok \in BOOLEAN : InitRepository("A", ok)
  \/ NewManager("A", url["A"], bname["A"])
  \/ EnsureBranch("A", TRUE)
  \/ SyncFiles("A", <<"/a/user">>)
  \/ RestoreFiles("A", <<"/a/user">>)
  \/ CommitChanges("A", None, Morning)
  \/ \E ans \in {NoAnswer, CleanPush, RejectedPush} : Push("A", ans)
  \/ \E a \in {PullOk, [error |-> TRUE, msg |-> {}]} : Pull("A", a, a)

SpecGuard == InitBranch /\ [][NextGuard]_vars

GuardedOps ==
  {"ensure_branch", "sync_files", "restore_files", "commit_changes", "push", "pull"}

\* C18: ensure_branch, sync_files, restore_files, commit_changes, push and
\* pull, called on a manager without repository handle, raise 'Repository
\* not initialized', issue no backend operation and change nothing: no
\* file, directory, branch, commit, remote or tracking setting.
C18_NotInitialized ==
  (call.op \in GuardedOps /\ ~Before.handle) =>
    /\ call.out = "raised"
    /\ call.err = <<"Repository not initialized", "">>
    /\ Issued = <<>>
    /\ call.ret = <<>>
    /\ Snapshot(call.m) = Before

\* restore_files on a new manager, not yet opened, whose repository on disk
\* holds the profiles: refused.
C18_Witness ==
  /\ call.op = "restore_files" /\ call.out = "raised"
  /\ ~handle[call.m]
  /\ disk[call.m] = "repo"
  /\ wt[call.m].sub["user"] # None
  /\ heads[call.m]["pc"] # 0

\* C19: push and pull on an opened repository without remote 'origin'
\* raise the no-remote error, issue no backend push or pull, and leave
\* HEAD, the branches and everything else as they were.
C19_NoRemote ==
  (call.op \in {"push", "pull"} /\ Before.handle /\ Before.origin = "") =>
    /\ call.out = "raised"
    /\ call.err = <<"No remote 'origin' configured", "">>
    /\ Issued = <<>>
    /\ Snapshot(call.m) = Before

\* pull on a local-only repository that has a commit of its own: refused.
C19_Witness ==
  /\ call.op = "pull" /\ call.out = "raised"
  /\ handle[call.m] /\ origin[call.m] = ""
  /\ HeadCommit(call.m) # 0
  /\ commits[HeadCommit(call.m)].p1 # 0

(***************************************************************************)
(* Claims about source paths that do not exist (checked under SpecTree).   *)
(***************************************************************************)
\* The number of files of the existing sources among args[i..].
RECURSIVE FilesCopied(_, _, _)
FilesCopied(m, args, i) ==
  IF i > Len(args) THEN 0
  ELSE (IF Exists(ext[m][args[i]])
        THEN Cardinality({f \in RelSet : ext[m][args[i]][1][f] # 0}) ELSE 0)
       + FilesCopied(m, args, i + 1)

\* C20 as stated: for every source path that does not exist, the subtree
\* profiles/<leaf name> is as it was before the call.
C20_MissingLeavesSubtree ==
  Returned("sync_files") =>
    \A i \in 1..Len(call.args) :
      ~Exists(ext[call.m][call.args[i]]) =>
        wt[call.m].sub[LeafOf(call.args[i])] = Before.wt.sub[LeafOf(call.args[i])]

\* C20 (amended): sync_files on an opened repository raises no error for a
\* source path that does not exist; the returned list has the files of the
\* existing sources and no other entry; the subtree profiles/<leaf name> of
\* a missing path is as it was before the call unless an existing source
\* path of the same call has the same leaf name; the existing paths are
\* processed as in C1.
C20_SkipMissing ==
  (call.op = "sync_files" /\ Before.handle) =>
    /\ call.out = "ok"
    /\ Len(call.ret) = FilesCopied(call.m, call.args, 1)
    /\ \A i \in 1..Len(call.args) :
         IF Exists(ext[call.m][call.args[i]])
         THEN LastOfLeaf(call.m, call.args, i) =>
                HoldsExactly(wt[call.m].sub[LeafOf(call.args[i])], ext[call.m][call.args[i]])
         ELSE (\A j \in 1..Len(call.args) :
                 Exists(ext[call.m][call.args[j]]) =>
                   LeafOf(call.args[j]) # LeafOf(call.args[i])) =>
              /\ wt[call.m].sub[LeafOf(call.args[i])] = Before.wt.sub[LeafOf(call.args[i])]
              /\ \A k \in 1..Len(call.ret) : call.ret[k][2] # LeafOf(call.args[i])

\* A sync of a list with a missing path whose subtree, stored by an earlier
\* sync, holds a file, and with an existing path that was copied.
C20_Witness ==
  /\ Returned("sync_files")
  /\ call.args = <<"/a/system", "/b/user">>
  /\ ~Exists(ext[call.m]["/b/user"])
  /\ Exists(ext[call.m]["/a/system"])
  /\ WtFile(wt[call.m], "user", RelPaths[1]) # 0
  /\ Len(call.ret) > 0
  /\ wt[call.m] # Before.wt

(***************************************************************************)
(* Claims about the list sync_files returns (checked under SpecTree).      *)
(***************************************************************************)
DistinctLeaves(args) ==
  \A i, j \in 1..Len(args) : i # j => LeafOf(args[i]) # LeafOf(args[j])

\* The files of the existing sources of args, as paths below repo_path.
FilesOfSources(m, args) ==
  {<<"profiles", LeafOf(args[x[1]]), x[2]>> :
     x \in {y \in (1..Len(args)) \X RelSet :
              /\ Exists(ext[m][args[y[1]]])
              /\ ext[m][args[y[1]]][1][y[2]] # 0}}

\* C21: for source paths of pairwise distinct leaf names, sync_files
\* returns one entry profiles/<leaf>/<relative path> for every file of
\* every existing source, each once, and no other entry: none for a
\* directory, none for a source that does not exist.
C21_CopiedList ==
  (Returned("sync_files") /\ DistinctLeaves(call.args)) =>
    /\ {call.ret[k] : k \in 1..Len(call.ret)} = FilesOfSources(call.m, call.args)
    /\ \A k1, k2 \in 1..Len(call.ret) : k1 # k2 => call.ret[k1] # call.ret[k2]

\* A sync of two sources of different leaf names, one with two files in
\* two directories, the other with one file.
C21_Witness ==
  /\ Returned("sync_files")
  /\ call.args = <<"/a/system", "/b/user">>
  /\ Len(call.ret) = 3
  /\ <<"profiles", "system", RelPaths[2]>> \in {call.ret[k] : k \in 1..Len(call.ret)}
  /\ <<"profiles", "user", RelPaths[1]>> \in {call.ret[k] : k \in 1..Len(call.ret)}

\* C22: when two different existing source paths of one sync_files call
\* have the same leaf name, the call raises no error and the subtree
\* profiles/<leaf> holds exactly the files of the later one: none of the
\* files only the earlier one has.
C22_LaterWins ==
  (call.op = "sync_files" /\ Before.handle) =>
    \A i, j \in 1..Len(call.args) :
      (/\ i < j
       /\ call.args[i] # call.args[j]
       /\ LeafOf(call.args[i]) = LeafOf(call.args[j])
       /\ Exists(ext[call.m][call.args[i]])
       /\ LastOfLeaf(call.m, call.args, j)) =>
        /\ call.out = "ok"
        /\ HoldsExactly(wt[call.m].sub[LeafOf(call.args[j])], ext[call.m][call.args[j]])

\* The earlier of two sources of the leaf name user has a file the later
\* one lacks, and the subtree does not have it.
C22_Witness ==
  /\ Returned("sync_files")
  /\ call.args = <<"/a/user", "/b/user">>
  /\ Exists(ext[call.m]["/a/user"]) /\ Exists(ext[call.m]["/b/user"])
  /\ ext[call.m]["/a/user"][1][RelPaths[1]] # 0
  /\ ext[call.m]["/b/user"][1][RelPaths[1]] = 0
  /\ ext[call.m]["/b/user"][1][RelPaths[2]] # 0
  /\ WtFile(wt[call.m], "user", RelPaths[1]) = 0

(***************************************************************************)
(* Claims about the classification of push failures (under SpecPush).      *)
(***************************************************************************)
\* The phrases of the backend message, whatever their letter case.
Phrases == {Lower(x) : x \in Issued[1].answer.msg}
SaysAuth ==
  Phrases \cap {"authentication failed", "could not read username",
                "could not read password", "permission denied",
                "authentication error", "invalid credentials", "access denied",
                "terminal prompts disabled", "no credentials", "403", "401"} # {}
SaysNotFound == "repository not found" \in Phrases \/ "404" \in Phrases
SaysNonFastForward == "non-fast-forward" \in Phrases

\* C23: when the backend push command fails, push raises, and the error is
\* the authentication error when the message has an authentication phrase
\* in any letter case; else the not-found error when it has 'repository
\* not found' or '404'; else the non-fast-forward error when it has
\* 'non-fast-forward'; else the generic push error.
C23_Classified ==
  (call.op = "push" /\ Len(Issued) = 1 /\ Issued[1].answer.error) =>
    /\ call.out = "raised"
    /\ SaysAuth => call.err[1] = "Authentication failed"
    /\ (~SaysAuth /\ SaysNotFound) => call.err[1] = "Repository not found"
    /\ (~SaysAuth /\ ~SaysNotFound /\ SaysNonFastForward) =>
         call.err[1] = "Push rejected (non-fast-forward)"
    /\ (~SaysAuth /\ ~SaysNotFound /\ ~SaysNonFastForward) =>
         call.err[1] = "Failed to push"

\* A failure whose message says both 'Permission denied' and 'Repository
\* not found' was raised as an authentication error.
C23_Witness ==
  /\ call.op = "push" /\ call.out = "raised"
  /\ Len(Issued) = 1 /\ Issued[1].answer.error
  /\ Issued[1].answer.msg = {"Permission denied", "Repository not found"}
  /\ call.err[1] = "Authentication failed"

(***************************************************************************)
(* Claims about the commit message (under SpecBranch).                     *)
(***************************************************************************)
\* text has part as a substring
Contains(text, part) ==
  \E i \in 1..(Len(text) - Len(part) + 1) : SubSeq(text, i, i + Len(part) - 1) = part

Committed == call.op = "commit_changes" /\ call.out = "ok" /\ call.flag

\* C24: when commit_changes creates a commit, a supplied non-empty message
\* is the commit message as it is; with no message the commit message is
\* "Sync from <hostname> - <YYYY-MM-DD HH:MM:SS of the local time>", which
\* contains the hostname of the machine.
C24_CommitMessage ==
  Committed =>
    /\ Len(Issued) = 1 /\ Issued[1].call = "index.commit"
    /\ Len(commits) = Before.ncommits + 1
    /\ (call.args[1] # None /\ call.args[1] # Some("")) =>
         Issued[1].message = call.args[1][1]
    /\ call.args[1] = None =>
         /\ Contains(Issued[1].message, Hostname(call.m))
         /\ SubSeq(Issued[1].message, 1, 10) = "Sync from "
         /\ Issued[1].now = Morning =>
              Issued[1].message = "Sync from alpha - 2024-01-05 09:03:07"
         /\ Issued[1].now # Morning =>
              Issued[1].message = "Sync from alpha - 2025-12-31 23:59:59"

\* A commit was created without a message being supplied, in the morning.
C24_Witness ==
  /\ Committed /\ call.args[1] = None /\ Issued[1].now = Morning
  /\ Issued[1].message = "Sync from alpha - 2024-01-05 09:03:07"

(***************************************************************************)
(* Claims about the environment of the backend push (under SpecPush).      *)
(***************************************************************************)
\* The backend's message when a credential is missing and it may not ask.
MissingCredential == {"terminal prompts disabled"}

\* C25: every backend push, the upstream-setting one and the plain one, is
\* issued with terminal prompts disabled, and a push the backend fails for
\* a missing credential raises an error to the caller.
C25_NoPrompt ==
  (call.op = "push" /\ Issued # <<>>) =>
    /\ \A i \in 1..Len(Issued) : ~Issued[i].call.prompt
    /\ (Issued[1].answer.error /\ Issued[1].answer.msg = MissingCredential) =>
         call.out = "raised" /\ call.err[1] = "Authentication failed"

\* A plain push, on a branch that tracks its remote branch, failed for a
\* missing credential and raised.
C25_Witness ==
  /\ call.op = "push" /\ call.out = "raised"
  /\ Len(Issued) = 1 /\ ~Issued[1].call.set_upstream
  /\ ~Issued[1].call.prompt
  /\ Issued[1].answer.error /\ Issued[1].answer.msg = MissingCredential

(***************************************************************************)
(* The command line: the push and pull commands of cli.py on machine A.    *)
(* call.run holds the command in progress: the calls of the engine it has  *)
(* made so far, and its exit status once it has ended.                     *)
(***************************************************************************)
SyncPaths == <<"/a/user">>

Running(c) == call.run.cmd = c /\ call.run.exit = -1
Steps == Len(call.run.trace)
LastStep == call.run.trace[Steps]

\* The command c has made n calls, and the last one returned.
Reached(c, n) == Running(c) /\ Steps = n /\ (n > 0 => LastStep.out = "ok")

\* The command has begun: nothing called yet.
Begun(m, c, confirm, message, exit) ==
  [Idle EXCEPT !.run = [NoRun EXCEPT !.cmd = c, !.m = m, !.confirm = confirm,
                                     !.message = message, !.exit = exit]]

\* sys.exit(status), or the return of the command (status 0)
Exit(status) ==
  /\ call' = [call EXCEPT !.run.exit = status]
  /\ UNCHANGED <<ext, parent, wt, mvars, gitvars, edits>>

\* push: the configuration is read, the confirmation asked when there is no
\* repository URL, and the manager constructed.
CliPushStart(m, confirm, message) ==
  /\ call.run.exit # -1
  /\ url[m] # "" => confirm
  /\ IF url[m] = "" /\ ~confirm
     THEN call' = Begun(m, "push", confirm, message, 0) /\ UNCHANGED handle
     ELSE /\ call' = Begun(m, "push", confirm, message, -1)
          /\ handle' = [handle EXCEPT ![m] = FALSE]
  /\ UNCHANGED <<ext, parent, wt, disk, url, bname, origin, heads, active, track,
                 orefs, gitvars, edits>>

CliPushInit == Reached("push", 0) /\ \E ok \in BOOLEAN : InitRepository(call.run.m, ok)
CliPushEnsure == Reached("push", 1) /\ \E ok \in BOOLEAN : EnsureBranch(call.run.m, ok)
CliPushSync == Reached("push", 2) /\ SyncFiles(call.run.m, SyncPaths)
CliPushCommit == Reached("push", 3) /\ CommitChanges(call.run.m, call.run.message, Morning)

\* A push whatever commit_changes returned.
CliPushPushAlways ==
  /\ Reached("push", 4)
  /\ \E ans \in {CleanPush, RejectedPush, [NoAnswer EXCEPT !.msg = {"terminal prompts disabled"}]} :
       Push(call.run.m, ans)

\* if cfg.repository_url: git_mgr.push(), reached when has_changes
CliPushPush ==
  /\ Reached("push", 4) /\ LastStep.flag /\ url[call.run.m] # ""
  /\ \E ans \in {CleanPush, RejectedPush, [NoAnswer EXCEPT !.msg = {"terminal prompts disabled"}]} :
       Push(call.run.m, ans)

\* The end of push: an exception (exit 1), the return when there is nothing
\* to commit, or the end of the command.
CliPushExit ==
  /\ Running("push") /\ Steps > 0
  /\ \/ LastStep.out = "raised" /\ Exit(1)
     \/ Reached("push", 4) /\ (~LastStep.flag \/ url[call.run.m] = "") /\ Exit(0)
     \/ Reached("push", 5) /\ Exit(0)

\* pull: without repository URL the command exits at once.
CliPullStart(m) ==
  /\ call.run.exit # -1
  /\ IF url[m] = ""
     THEN call' = Begun(m, "pull", TRUE, None, 1) /\ UNCHANGED handle
     ELSE /\ call' = Begun(m, "pull", TRUE, None, -1)
          /\ handle' = [handle EXCEPT ![m] = FALSE]
  /\ UNCHANGED <<ext, parent, wt, disk, url, bname, origin, heads, active, track,
                 orefs, gitvars, edits>>

CliPullInit == Reached("pull", 0) /\ \E ok \in BOOLEAN : InitRepository(call.run.m, ok)
CliPullEnsure == Reached("pull", 1) /\ \E ok \in BOOLEAN : EnsureBranch(call.run.m, ok)
CliPullPull ==
  /\ Reached("pull", 2)
  /\ \E a \in {PullOk, [error |-> TRUE, msg |-> {}]} : Pull(call.run.m, a, a)

\* A restore whatever pull returned.
CliPullRestoreAlways == Reached("pull", 3) /\ RestoreFiles(call.run.m, SyncPaths)

\* if has_changes: git_mgr.restore_files(cfg.sync_paths)
CliPullRestore == Reached("pull", 3) /\ LastStep.flag /\ RestoreFiles(call.run.m, SyncPaths)

CliPullExit ==
  /\ Running("pull") /\ Steps > 0
  /\ \/ LastStep.out = "raised" /\ Exit(1)
     \/ Reached("pull", 3) /\ ~LastStep.flag /\ Exit(0)
     \/ Reached("pull", 4) /\ Exit(0)

\* What the push command has printed, line by line.
PushLine(e) ==
  IF e.out = "raised"
  THEN <<IF e.err \in {GitCommandError, "ValueError"} THEN "Unexpected error" ELSE "Sync failed">>
  ELSE IF e.op = "sync_files" THEN <<"Copied files to repository">>
  ELSE IF e.op = "commit_changes"
  THEN <<IF e.flag THEN "Changes committed" ELSE "No changes to commit">>
  ELSE IF e.op = "push" THEN <<"Pushed to remote repository">>
  ELSE <<>>
RECURSIVE PushLines(_, _)
PushLines(t, i) == IF i > Len(t) THEN <<>> ELSE PushLine(t[i]) \o PushLines(t, i + 1)
PushConsole ==
  PushLines(call.run.trace, 1)
  \o (IF /\ call.run.exit = 0 /\ Steps >= 4
         /\ (call.run.trace[4].flag \/ Steps = 5)
      THEN <<"Push complete!">> ELSE <<>>)

\* Another machine pushes a commit to the branch of the remote repository,
\* between two commands of the command line, or while no thread of the
\* terminal interface is at work.
RemoteAdvance ==
  LET b == bname["A"] IN
  /\ \/ call.run.exit # -1
     \/ call.run.cmd = "tui" /\ \A t \in Slots : call.run.threads[t].cmd = ""
  /\ rheads[b] # 0
  /\ Len(commits) < MaxCommits
  /\ \E c \in Contents \ {0} :
       /\ TreeAt(rheads[b]).sub["user"][RelPaths[2]] # c
       /\ commits' = Append(commits, Commit(rheads[b], 0,
                        [TreeAt(rheads[b]) EXCEPT !.sub["user"][RelPaths[2]] = c]))
  /\ rheads' = [rheads EXCEPT ![b] = Len(commits) + 1]
  /\ call' = IF call.run.cmd = "tui" THEN call ELSE Idle
  /\ UNCHANGED <<ext, parent, wt, mvars, edits>>

\* The user edits the profile directory between two commands.
EditBetween ==
  /\ call.run.exit # -1 /\ disk["A"] = "repo"
  /\ EditExt("A", "/a/user") /\ Exists(ext'["A"]["/a/user"])

NextCli ==
  \/ \E confirm \in BOOLEAN : CliPushStart("A", confirm, Some("wip"))
  \/ CliPushInit
  \/ CliPushEnsure
  \/ CliPushSync
  \/ CliPushCommit
  \/ CliPushPush
  \/ CliPushExit
  \/ CliPullStart("A")
  \/ CliPullInit
  \/ CliPullEnsure
  \/ CliPullPull
  \/ CliPullRestore
  \/ CliPullExit
  \/ RemoteAdvance
  \/ EditBetween

SpecCli == InitBranch /\ [][NextCli]_vars

(***************************************************************************)
(* Claims about the commands of the command line (under SpecCli).          *)
(***************************************************************************)
Called == call.run.trace
Ended == call.run.cmd # "" /\ call.run.exit # -1
Declined == url[call.run.m] = "" /\ ~call.run.confirm

\* The calls made so far are the first calls of ops, in the order of ops.
InOrder(ops) ==
  /\ Len(Called) <= Len(ops)
  /\ \A i \in 1..Len(Called) : Called[i].op = ops[i]

\* C26: the push command calls init_repository, ensure_branch, sync_files
\* and commit_changes in that order, each after the one before returned,
\* and push only after commit_changes returned true and only with a
\* repository URL configured; a command that ended normally made the four
\* calls unless the user declined the local-only confirmation, and then it
\* made no call at all.
C26_PushWorkflow ==
  call.run.cmd = "push" =>
    /\ InOrder(<<"init_repository", "ensure_branch", "sync_files", "commit_changes", "push">>)
    /\ \A i \in 1..(Len(Called) - 1) : Called[i].out = "ok"
    /\ Len(Called) = 5 => Called[4].flag /\ url[call.run.m] # ""
    /\ Declined => Called = <<>> /\ call.run.exit = 0
    /\ (Ended /\ call.run.exit = 0 /\ ~Declined) =>
         /\ Len(Called) >= 4
         /\ Len(Called) = 5 <=> (Called[4].flag /\ url[call.run.m] # "")

\* A push command ended after commit_changes returned true and push
\* returned.
C26_Witness ==
  /\ call.run.cmd = "push" /\ Ended /\ call.run.exit = 0
  /\ Len(Called) = 5 /\ Called[4].flag /\ Called[5].out = "ok"

\* C27: without repository URL the pull command exits with status 1 and
\* calls nothing; otherwise it calls init_repository, ensure_branch and
\* pull in that order, and restore_files if and only if pull reported
\* changes; an error raised by a call ends the command with status 1 and
\* no later call is made.
C27_PullWorkflow ==
  call.run.cmd = "pull" =>
    /\ InOrder(<<"init_repository", "ensure_branch", "pull", "restore_files">>)
    /\ \A i \in 1..(Len(Called) - 1) : Called[i].out = "ok"
    /\ url[call.run.m] = "" => Called = <<>> /\ call.run.exit = 1
    /\ Len(Called) = 4 => Called[3].flag
    /\ (Ended /\ url[call.run.m] # "") =>
         IF Called[Len(Called)].out = "raised"
         THEN call.run.exit = 1
         ELSE /\ call.run.exit = 0
              /\ Len(Called) >= 3
              /\ Len(Called) = 4 <=> Called[3].flag

\* A pull command ended after pull reported changes and restore_files
\* returned.
C27_Witness ==
  /\ call.run.cmd = "pull" /\ Ended /\ call.run.exit = 0
  /\ Len(Called) = 4 /\ Called[3].flag /\ Called[4].out = "ok"

\* A pull command ended with status 1 after ensure_branch raised.
C27_Raised ==
  /\ call.run.cmd = "pull" /\ Ended /\ call.run.exit = 1
  /\ Len(Called) = 2 /\ Called[2].out = "raised"

\* The push command committed and its push raised a GitSyncError.
PushFailedAfterCommit ==
  /\ call.run.cmd = "push" /\ Ended
  /\ Len(Called) = 5 /\ Called[4].out = "ok" /\ Called[4].flag
  /\ Called[5].out = "raised"

Shown(line) == \E i \in 1..Len(PushConsole) : PushConsole[i] = line

\* C28: when the commit of the push command succeeds and the push to the
\* remote raises a GitSyncError, the command exits with status 0 and
\* reports that the changes were committed.
C28_PushFailureTolerated ==
  PushFailedAfterCommit =>
    /\ call.run.exit = 0
    /\ Shown("Changes committed")
    /\ ~Shown("Sync failed")

\* What the command does in that case: it exits with status 1 after
\* reporting the commit and then the failure of the whole command.
C28_PushFailureFatal ==
  PushFailedAfterCommit =>
    /\ call.run.exit = 1
    /\ PushConsole = <<"Copied files to repository", "Changes committed", "Sync failed">>

\* A push command whose push failed after the commit has ended.
C28_Witness == PushFailedAfterCommit /\ Called[5].err = "Push failed"

(***************************************************************************)
(* Claims about the checked-out branch during a session (under SpecCli).   *)
(***************************************************************************)
\* ensure_branch has returned in the command in progress, and no pull of
\* the command has failed.
Ensured ==
  /\ call.run.cmd # "" /\ Len(Called) >= 2 /\ Called[2].out = "ok"
  /\ \A i \in 1..Len(Called) : Called[i].op = "pull" => Called[i].out = "ok"

\* In every state after ensure_branch returned the checked-out branch is
\* branch_name, and a commit commit_changes just created is the head of
\* branch_name and of no other branch.
OnBranch ==
  Ensured =>
    /\ active[call.run.m] = bname[call.run.m]
    /\ (call.op = "commit_changes" /\ call.flag) =>
         /\ heads[call.m][bname[call.m]] = Len(commits)
         /\ commits[Len(commits)].p1 = Before.heads[bname[call.m]]
         /\ \A b \in BranchNames \ {bname[call.m]} : heads[call.m][b] = Before.heads[b]

\* A step of sync_files, commit_changes, push, a pull that returns, or
\* restore_files leaves the checked-out branch as it is.
KeepsBranch ==
  (/\ call'.op \in {"sync_files", "commit_changes", "push", "pull", "restore_files"}
   /\ ~(call'.op = "pull" /\ call'.out = "raised"))
  => active' = active

\* C29: once ensure_branch has returned, sync_files, commit_changes, push,
\* a successful pull and restore_files leave the checked-out branch as it
\* is: it is branch_name in every later state of the session, and the
\* commits of commit_changes land on branch_name.
C29_BranchStable == []OnBranch /\ [][KeepsBranch]_vars

\* A command committed on a branch other than the default one, which it
\* had created and checked out.
C29_Witness ==
  /\ Ensured /\ call.op = "commit_changes" /\ call.flag
  /\ bname[call.m] # DefaultBranch
  /\ heads[call.m][bname[call.m]] # heads[call.m][DefaultBranch]

(***************************************************************************)
(* The terminal interface (tui.py) on machine A.  The handlers of keys and *)
(* buttons run on the thread of the user interface (slot 0); each of       *)
(* initialize_repository, push_profiles and pull_profiles runs in a worker *)
(* thread of its own (@work(exclusive=True, thread=True)): starting one    *)
(* cancels the workers before it, and a cancelled thread runs on since the *)
(* code never asks whether it was cancelled.  call.run.threads holds, for  *)
(* each thread, the number of calls of the engine it has made and the      *)
(* outcome of the last one; call.run.cur is the thread that runs.          *)
(***************************************************************************)
Threads == call.run.threads
Cur == Threads[call.run.cur]
Thread(c) == [NoThread EXCEPT !.cmd = c]
TuiIdle == [Idle EXCEPT !.run = [NoRun EXCEPT !.cmd = "tui", !.m = "A", !.exit = -1]]

InitTui ==
  /\ ext = [m \in Machines |-> [p \in Paths |->
              IF m = "A" /\ p = "/a/user" THEN Some(Profile) ELSE None]]
  /\ parent = [m \in Machines |-> [q \in Parents |-> m = "A" /\ q = "/a"]]
  /\ wt = [m \in Machines |-> NoTree]
  /\ disk = [m \in Machines |-> "absent"]
  /\ handle = [m \in Machines |-> FALSE]
  /\ url \in {[m \in Machines |-> IF m = "A" THEN u ELSE ""] : u \in Urls}
  /\ bname = [m \in Machines |-> IF m = "A" THEN "pc" ELSE DefaultBranch]
  /\ origin = [m \in Machines |-> ""]
  /\ heads = [m \in Machines |-> NoHeads]
  /\ active = [m \in Machines |-> DefaultBranch]
  /\ track = [m \in Machines |-> NoTrack]
  /\ orefs = [m \in Machines |-> NoHeads]
  /\ RemoteStates
  /\ call = TuiIdle
  /\ edits = 0

\* A key or a button starts a worker: self.push_profiles() and the like.
\* The handler runs on the thread of the user interface.
Press(c) ==
  /\ call.run.cmd = "tui" /\ Threads[0].cmd = ""
  /\ \E w \in 1..MaxWorkers :
       /\ Threads[w].cmd = ""
       /\ \A v \in 1..(w - 1) : Threads[v].cmd # ""
       /\ call' = [call EXCEPT !.run.threads = [t \in Slots |->
                     IF t = w THEN Thread(c)
                     ELSE IF t # 0 /\ Threads[t].cmd # "" THEN [Threads[t] EXCEPT !.cancelled = TRUE]
                     ELSE Threads[t]]]
  /\ UNCHANGED <<ext, parent, wt, mvars, gitvars, edits>>

\* action_refresh: refresh_status on the thread of the user interface.
Refresh ==
  /\ call.run.cmd = "tui" /\ Threads[0].cmd = ""
  /\ call' = [call EXCEPT !.run.threads[0] = Thread("refresh")]
  /\ UNCHANGED <<ext, parent, wt, mvars, gitvars, edits>>

\* The thread t gets the processor.
Schedule(t) ==
  /\ call.run.cmd = "tui" /\ call.run.cur # t /\ Threads[t].cmd # ""
  /\ call' = [call EXCEPT !.run.cur = t]
  /\ UNCHANGED <<ext, parent, wt, mvars, gitvars, edits>>

\* The thread that runs has the command c, has made n calls, and the last
\* one returned.
At(c, n) ==
  /\ call.run.cmd = "tui" /\ call.run.cur \in Slots
  /\ Cur.cmd = c /\ Cur.n = n /\ Cur.out = "ok"

\* git_mgr.init_repository() of the three workers and of render_status
TuiInit ==
  /\ \/ At("init", 0) \/ At("push", 0)
     \/ At("pull", 0) /\ url["A"] # ""
     \/ At("refresh", 0) /\ disk["A"] # "absent"
  /\ InitRepository("A", TRUE)

TuiEnsure ==
  /\ At("init", 1) \/ At("push", 1) \/ At("pull", 1)
  /\ EnsureBranch("A", TRUE)

TuiSync == At("push", 2) /\ SyncFiles("A", SyncPaths)
TuiCommit == At("push", 3) /\ CommitChanges("A", None, Morning)
TuiPush ==
  /\ At("push", 4) /\ Cur.flag /\ url["A"] # ""
  /\ \E ans \in {CleanPush, RejectedPush} : Push("A", ans)
TuiPull == At("pull", 2) /\ \E a \in {PullOk, [error |-> TRUE, msg |-> {}]} : Pull("A", a, a)
TuiRestore == At("pull", 3) /\ Cur.flag /\ RestoreFiles("A", SyncPaths)
TuiStatus == At("refresh", 1) /\ GetStatus("A")

\* The worker has reached self.call_from_thread(refresh_status).
Completed(th) ==
  \/ th.cmd = "init" /\ th.n = 2 /\ th.out = "ok"
  \/ th.cmd = "push" /\ th.n = 4 /\ th.out = "ok" /\ (~th.flag \/ url["A"] = "")
  \/ th.cmd = "push" /\ th.n = 5
  \/ th.cmd = "pull" /\ th.n = 3 /\ th.out = "ok" /\ ~th.flag
  \/ th.cmd = "pull" /\ th.n = 4 /\ th.out = "ok"

\* The worker has left its function by an exception, or by the return of
\* pull_profiles without repository URL.
Left(th) ==
  \/ th.cmd \in {"init", "push", "pull"} /\ th.out = "raised" /\ ~(th.cmd = "push" /\ th.n = 5)
  \/ th.cmd = "pull" /\ th.n = 0 /\ url["A"] = ""

\* A worker ends; one that completed has the user interface refresh the
\* status panel, which waits until that thread is free.
WorkerEnd(w) ==
  /\ call.run.cmd = "tui" /\ w # 0
  /\ \/ /\ Completed(Threads[w]) /\ Threads[0].cmd = ""
        /\ call' = [call EXCEPT !.run.threads[w] = NoThread,
                                !.run.threads[0] = Thread("refresh"),
                                !.run.cur = IF @ = w THEN -1 ELSE @]
     \/ /\ Left(Threads[w])
        /\ call' = [call EXCEPT !.run.threads[w] = NoThread,
                                !.run.cur = IF @ = w THEN -1 ELSE @]
  /\ UNCHANGED <<ext, parent, wt, mvars, gitvars, edits>>

\* render_status returns.
RefreshEnd ==
  /\ call.run.cmd = "tui" /\ Threads[0].cmd = "refresh"
  /\ \/ Threads[0].n = 0 /\ disk["A"] = "absent"
     \/ Threads[0].n = 1 /\ Threads[0].out = "raised"
     \/ Threads[0].n = 2
  /\ call' = [call EXCEPT !.run.threads[0] = NoThread,
                          !.run.cur = IF @ = 0 THEN -1 ELSE @]
  /\ UNCHANGED <<ext, parent, wt, mvars, gitvars, edits>>

NextTui ==
  \/ \E c \in {"init", "push", "pull"} : Press(c)
  \/ Refresh
  \/ \E t \in Slots : Schedule(t)
  \/ TuiInit
  \/ TuiEnsure
  \/ TuiSync
  \/ TuiCommit
  \/ TuiPush
  \/ TuiPull
  \/ TuiRestore
  \/ TuiStatus
  \/ \E w \in 1..MaxWorkers : WorkerEnd(w)
  \/ RefreshEnd
  \/ RemoteAdvance

SpecTui == InitTui /\ [][NextTui]_vars

(***************************************************************************)
(* Claims about the threads of the terminal interface (under SpecTui).     *)
(***************************************************************************)
\* The thread t is in its calls of the engine: it has made one, and has
\* not ended.
Busy(t) == Threads[t].cmd # "" /\ Threads[t].n >= 1

\* C30: at any time at most one thread of the terminal interface is in
\* its calls of the engine on the repository.
C30_OneThread ==
  call.run.cmd = "tui" => Cardinality({t \in Slots : Busy(t)}) <= 1

\* While a push worker is past sync_files, the thread of the user
\* interface has opened the repository for the status panel.
C30_Witness ==
  /\ call.run.cmd = "tui"
  /\ Threads[0].cmd = "refresh" /\ Threads[0].n >= 1
  /\ \E w \in 1..MaxWorkers : Threads[w].cmd = "push" /\ Threads[w].n = 3

\* Two workers are in their calls of the engine.
C30_TwoWorkers ==
  /\ call.run.cmd = "tui"
  /\ Busy(1) /\ Busy(2) /\ Threads[1].cancelled

(***************************************************************************)
(* Claims about ensure_branch on an existing branch (under SpecBranch).    *)
(***************************************************************************)
\* ensure_branch found the local branch: it issued the checkout alone and
\* left branches and tracking references as they were.
OnlyCheckout ==
  (call.op = "ensure_branch" /\ Before.handle /\ Before.heads[bname[call.m]] # 0) =>
    /\ Issued = <<"checkout">>
    /\ heads[call.m] = Before.heads
    /\ track[call.m] = Before.track
    /\ orefs[call.m] = Before.orefs
    /\ Len(commits) = Before.ncommits

\* An ensure_branch that follows an ensure_branch that returned changes
\* nothing of the repository, and returns.
SecondCallSame ==
  (/\ call.op = "ensure_branch" /\ call.out = "ok"
   /\ call'.op = "ensure_branch" /\ call'.m = call.m
   /\ bname' = bname /\ handle' = handle)
  => /\ call'.out = "ok"
     /\ heads' = heads /\ track' = track /\ orefs' = orefs
     /\ active' = active /\ wt' = wt /\ commits' = commits

\* C31: when the local branch exists, ensure_branch fetches nothing,
\* creates no branch and changes no tracking reference, it only checks the
\* branch out; a second ensure_branch right after one that returned leaves
\* the repository as it is.
C31_Idempotent == []OnlyCheckout /\ [][SecondCallSame]_vars

\* ensure_branch returned a second time in a row, the first call having
\* created the branch.
C31_Witness ==
  /\ Returned("ensure_branch") /\ Issued = <<"checkout">>
  /\ Before.active = bname[call.m] /\ bname[call.m] # DefaultBranch
  /\ heads[call.m] = Before.heads /\ wt[call.m] = Before.wt

(***************************************************************************)
(* Claims about the commit init_repository leaves (under SpecBranch).      *)
(***************************************************************************)
HasCommit(m) == \E b \in BranchNames : heads[m][b] # 0

\* C32: after every init_repository that returned, the repository has at
\* least one commit, and an ensure_branch that follows at once returns.
C32_CommitAfterInit ==
  /\ [](Returned("init_repository") => HasCommit(call.m))
  /\ [][(/\ call.op = "init_repository" /\ call.out = "ok"
         /\ call'.op = "ensure_branch" /\ call'.m = call.m)
        => call'.out = "ok"]_vars

\* init_repository returned after cloning a remote that has no commit; the
\* clone has no branch and no commit at HEAD.
C32_Witness ==
  /\ Returned("init_repository") /\ Issued = <<"clone">>
  /\ ~HasCommit(call.m) /\ HeadCommit(call.m) = 0

\* The ensure_branch that followed such a clone raised.
C32_EnsureRaised ==
  /\ call.op = "ensure_branch" /\ call.out = "raised"
  /\ Before.handle /\ ~HasCommit(call.m)

(***************************************************************************)
(* Claims about what a command that succeeded has done (under SpecCli).    *)
(***************************************************************************)
Succeeded(c) == call.run.cmd = c /\ Ended /\ call.run.exit = 0 /\ Called # <<>>

\* Every commit of the local branch is in the remote branch.
AllPushed(m) == heads[m][bname[m]] \in AncestorsOrSelf(rheads[bname[m]])

\* C33: with a repository URL configured, when the push command has ended
\* with success every commit of the local branch has been pushed: the
\* remote branch holds the head of the local branch.
C33_PushedOnSuccess ==
  (Succeeded("push") /\ url[call.run.m] # "") => AllPushed(call.run.m)

\* A push command ended with success finding nothing to commit, while the
\* local branch holds a commit the remote branch does not have.
C33_Witness ==
  /\ Succeeded("push") /\ url[call.run.m] # ""
  /\ Len(Called) = 4 /\ ~Called[4].flag
  /\ heads[call.run.m][bname[call.run.m]] # 0
  /\ ~AllPushed(call.run.m)
  /\ rheads[bname[call.run.m]] \in AncestorsOrSelf(heads[call.run.m][bname[call.run.m]]) \cup {0}

\* Every configured destination whose subtree exists under the managed
\* root holds exactly the files of that subtree.
Restored(m) ==
  \A i \in 1..Len(SyncPaths) :
    LET p == SyncPaths[i]
        subtree == wt[m].sub[LeafOf(p)] IN
    (wt[m].root /\ subtree # None) => HoldsExactly(ext[m][p], subtree)

\* C34: with a repository URL configured, when the pull command has ended
\* with success every configured destination directory whose subtree
\* exists under the managed root holds exactly the content of the subtree.
C34_RestoredOnSuccess ==
  (Succeeded("pull") /\ url[call.run.m] # "") => Restored(call.run.m)

\* A pull command cloned the repository, found no new commit and ended
\* with success; the destination does not hold the files of its subtree.
C34_Witness ==
  /\ Succeeded("pull") /\ url[call.run.m] # ""
  /\ Len(Called) = 3 /\ ~Called[3].flag
  /\ wt[call.run.m].root /\ wt[call.run.m].sub["user"] # None
  /\ ~Restored(call.run.m)

\* Whenever a pull command did call restore_files and ended with success,
\* the destinations hold their subtrees.
C34_RestoredWhenChanged ==
  (Succeeded("pull") /\ Len(Called) = 4) => Restored(call.run.m)

(***************************************************************************)
(* Claims about a push without status (under SpecPush).                    *)
(***************************************************************************)
\* C35: push returns normally only if the backend push reported at least
\* one status and no status it reported carries an error, rejected,
\* remote-rejected or remote-failure flag.
C35_NoSilentFailure ==
  Returned("push") =>
    /\ Len(Issued) = 1 /\ ~Issued[1].answer.error
    /\ Issued[1].answer.infos # <<>>
    /\ \A i \in 1..Len(Issued[1].answer.infos) : ~HasErrorFlag(Issued[1].answer.infos[i])

\* A push returned normally although the backend reported no status; the
\* remote branch does not hold the local head.
C35_Witness ==
  /\ Returned("push") /\ Len(Issued) = 1
  /\ Issued[1].answer.infos = <<>>
  /\ rheads[bname[call.m]] # heads[call.m][bname[call.m]]

\* With at least one status reported, a push that returned had no flagged
\* status.
C35_CleanWhenReported ==
  (Returned("push") /\ Issued[1].answer.infos # <<>>) =>
    \A i \in 1..Len(Issued[1].answer.infos) : ~HasErrorFlag(Issued[1].answer.infos[i])

(***************************************************************************)
(* The recursive copy stopped by a filesystem error.                       *)
(***************************************************************************)
\* shutil.copytree(src, dst) raising for the source directory d: dst is not
\* created, or it is created and holds the files of d that were copied
\* before the error was raised (any of them, all of them when the error
\* comes from the final copy of the directory's attributes).
CopyTreeOutcomes(d) ==
  {None} \cup {Some([f \in RelSet |-> IF f \in kept THEN d[1][f] ELSE 0]) :
                 kept \in SUBSET FilesOf(d)}

\* The backend call that raised: the copy for the i-th path, from the
\* directory src over the directory old.
CopyTree(i, src, old) == [call |-> "copytree", at |-> i, src |-> src, old |-> old]

\* sync_files whose copy for source_paths[i] raises OSError: the paths
\* before it are copied, the subtree of the i-th is removed and holds what
\* the copy left, the error leaves the loop.
SyncFilesCopyError(m, paths, i) ==
  /\ Opened(m)
  /\ i \in 1..Len(paths)
  /\ Exists(ext[m][paths[i]])
  /\ LET r == SyncLoop(SubSeq(paths, 1, i - 1), 1, ext[m], wt[m].sub, <<>>)
         l == LeafOf(paths[i]) IN
     \E o \in CopyTreeOutcomes(ext[m][paths[i]]) :
       /\ wt' = [wt EXCEPT ![m].root = TRUE, ![m].sub = [r.sub EXCEPT ![l] = o]]
       /\ call' = Done(m, "sync_files", "raised", <<"OSError", "">>, paths, <<>>, FALSE,
                       <<CopyTree(i, ext[m][paths[i]], r.sub[l])>>)
  /\ UNCHANGED <<ext, parent, mvars, gitvars, edits>>

\* restore_files whose copy for target_paths[i] raises OSError: the targets
\* before it are restored, the directory above the i-th exists, the i-th is
\* removed and holds what the copy left.
RestoreFilesCopyError(m, paths, i) ==
  /\ Opened(m)
  /\ wt[m].root
  /\ i \in 1..Len(paths)
  /\ Exists(wt[m].sub[LeafOf(paths[i])])
  /\ LET r == RestoreLoop(SubSeq(paths, 1, i - 1), 1, wt[m].sub, ext[m], parent[m], <<>>)
         p == paths[i] IN
     \E o \in CopyTreeOutcomes(wt[m].sub[LeafOf(p)]) :
       /\ ext' = [ext EXCEPT ![m] = [r.dst EXCEPT ![p] = o]]
       /\ parent' = [parent EXCEPT ![m] = [r.par EXCEPT ![ParentOf(p)] = TRUE]]
       /\ call' = Done(m, "restore_files", "raised", <<"OSError", "">>, paths, <<>>, FALSE,
                       <<CopyTree(i, wt[m].sub[LeafOf(p)], r.dst[p])>>)
  /\ UNCHANGED <<wt, mvars, gitvars, edits>>

\* A call of sync_files or restore_files left by the error of a copy.
CopyFailed ==
  /\ call.op \in {"sync_files", "restore_files"}
  /\ call.out = "raised"
  /\ Len(call.backend) = 1 /\ call.backend[1].call = "copytree"

\* The calls up to the first failed copy: a caller that got the error makes
\* no further call.
CopyEdit == ~CopyFailed /\ \E p \in Paths : EditExt("A", p)
CopySync == ~CopyFailed /\ \E ps \in TreeLists : SyncFiles("A", ps)
CopyRestore == ~CopyFailed /\ \E ps \in TreeLists : RestoreFiles("A", ps)
CopySyncError ==
  ~CopyFailed /\ \E ps \in TreeLists, i \in 1..3 : SyncFilesCopyError("A", ps, i)
CopyRestoreError ==
  ~CopyFailed /\ \E ps \in TreeLists, i \in 1..3 : RestoreFilesCopyError("A", ps, i)

NextCopy ==
  \/ CopyEdit
  \/ CopySync
  \/ CopyRestore
  \/ CopySyncError
  \/ CopyRestoreError

SpecCopy == InitTree /\ [][NextCopy]_vars

(***************************************************************************)
(* Claims about a failed copy (under SpecCopy).                            *)
(***************************************************************************)
\* The directory the failed copy was replacing, as it is now.
Replaced ==
  IF call.op = "sync_files"
  THEN wt[call.m].sub[LeafOf(call.args[Issued[1].at])]
  ELSE ext[call.m][call.args[Issued[1].at]]

\* C36: when the recursive copy of sync_files or restore_files fails with a
\* filesystem error, the error reaches the caller and the directory being
\* replaced is either as it was before the replacement or holds exactly
\* the content of the source; it is never deleted or partially copied.
C36_AtomicReplace ==
  CopyFailed => /\ call.err[1] = "OSError"
                /\ Replaced \in {Issued[1].old, Issued[1].src}

\* A failed copy of restore_files left the user's directory, which held
\* files, deleted.
C36_Witness ==
  /\ CopyFailed /\ call.op = "restore_files"
  /\ FilesOf(Issued[1].old) # {}
  /\ Replaced = None

\* The error of a failed copy always reaches the caller, and the directories
\* of the paths before the failing one are fully replaced.
C36_Propagates ==
  CopyFailed =>
    /\ call.err[1] = "OSError" /\ call.ret = <<>>
    /\ \A j \in 1..(Issued[1].at - 1) :
         (call.op = "restore_files" /\ Exists(wt[call.m].sub[LeafOf(call.args[j])])
            /\ call.args[j] # call.args[Issued[1].at])
           => ext[call.m][call.args[j]] = wt[call.m].sub[LeafOf(call.args[j])]

(***************************************************************************)
(* The terminal interface: the sync worker (fetch, pull with restore, then *)
(* copy, commit and push), taken as one thread.                            *)
(***************************************************************************)
\* origin.fetch(): the remote-tracking refs follow the remote repository,
\* or the backend raises.
Fetch(m, ok) ==
  /\ IF ok
     THEN /\ orefs' = [orefs EXCEPT ![m] = Fetched(m)]
          /\ call' = Done(m, "fetch", "ok", NoError, <<>>, <<>>, FALSE,
                          <<[call |-> "origin.fetch"]>>)
     ELSE /\ call' = Done(m, "fetch", "raised", <<GitCommandError, "">>, <<>>, <<>>, FALSE,
                          <<[call |-> "origin.fetch"]>>)
          /\ UNCHANGED orefs
  /\ UNCHANGED <<ext, parent, wt, disk, handle, url, bname, origin, heads, active, track,
                 gitvars, edits>>

\* The worker's last call was op, and it returned.
SyncAt(op) == Running("sync") /\ Steps > 0 /\ LastStep.op = op /\ LastStep.out = "ok"

\* The worker has called pull.
Pulled == \E i \in 1..Steps : call.run.trace[i].op = "pull"

\* sync_profiles: without repository URL the worker returns at once.
TuiSyncStart(m) ==
  /\ call.run.exit # -1
  /\ IF url[m] = ""
     THEN call' = Begun(m, "sync", TRUE, None, 1) /\ UNCHANGED handle
     ELSE /\ call' = Begun(m, "sync", TRUE, None, -1)
          /\ handle' = [handle EXCEPT ![m] = FALSE]
  /\ UNCHANGED <<ext, parent, wt, disk, url, bname, origin, heads, active, track,
                 orefs, gitvars, edits>>

TuiSyncInit == Reached("sync", 0) /\ \E ok \in BOOLEAN : InitRepository(call.run.m, ok)
TuiSyncEnsure == Reached("sync", 1) /\ \E ok \in BOOLEAN : EnsureBranch(call.run.m, ok)

\* Step 1: if "origin" in git_mgr.repo.remotes: origin.fetch()
TuiSyncFetch ==
  /\ Reached("sync", 2) /\ HasOrigin(call.run.m)
  /\ \E ok \in BOOLEAN : Fetch(call.run.m, ok)

\* Step 1 is over.
TuiSyncFetched == SyncAt("fetch") \/ (Reached("sync", 2) /\ ~HasOrigin(call.run.m))

\* Step 2: if the repository is dirty or has untracked files, git add -A and
\* commit_changes("Pre-sync commit")
TuiSyncPreCommit ==
  /\ TuiSyncFetched /\ Dirty(call.run.m)
  /\ CommitChanges(call.run.m, Some("Pre-sync commit"), Morning)

TuiSyncPull ==
  /\ \/ TuiSyncFetched /\ ~Dirty(call.run.m)
     \/ SyncAt("commit_changes") /\ ~Pulled
  /\ \E a \in {PullOk, [error |-> TRUE, msg |-> {}]} : Pull(call.run.m, a, a)

\* The restore before the copy, whatever the destination holds.
TuiSyncRestore == SyncAt("pull") /\ LastStep.flag /\ RestoreFiles(call.run.m, SyncPaths)

\* Step 3: sync_files, commit_changes
TuiSyncCopy ==
  /\ \/ SyncAt("pull") /\ ~LastStep.flag
     \/ SyncAt("restore_files")
  /\ SyncFiles(call.run.m, SyncPaths)

\* The copy of step 3 stopped by a filesystem error, once the user has made
\* all the edits of the bound.
TuiSyncCopyError ==
  /\ edits = MaxEdits
  /\ \/ SyncAt("pull") /\ ~LastStep.flag
     \/ SyncAt("restore_files")
  /\ SyncFilesCopyError(call.run.m, SyncPaths, 1)

TuiSyncCommit == SyncAt("sync_files") /\ CommitChanges(call.run.m, None, Morning)

\* list(iter_commits("origin/b..b")): the commits of the branch its
\* tracking branch lacks.
CommitsAhead(m) ==
  AncestorsOrSelf(HeadCommit(m)) \ AncestorsOrSelf(orefs[m][active[m]])

\* The worker pushes: with a tracking branch when commits are ahead or
\* something was committed, without one when something was committed.
TuiSyncWantsPush ==
  /\ SyncAt("commit_changes") /\ Pulled
  /\ IF track[call.run.m][active[call.run.m]]
     THEN CommitsAhead(call.run.m) # {} \/ LastStep.flag
     ELSE LastStep.flag

TuiSyncPush ==
  /\ TuiSyncWantsPush
  /\ \E ans \in {CleanPush, RejectedPush} : Push(call.run.m, ans)

\* The end of the worker: "Sync complete!" (0), also after a push that
\* raised, or an error logged (1).
TuiSyncEnd ==
  /\ Running("sync") /\ Steps > 0
  /\ \/ LastStep.out = "raised" /\ LastStep.op # "push" /\ Exit(1)
     \/ LastStep.op = "push" /\ Exit(0)
     \/ SyncAt("commit_changes") /\ Pulled /\ ~TuiSyncWantsPush /\ Exit(0)

NextSync ==
  \/ TuiSyncStart("A")
  \/ TuiSyncInit
  \/ TuiSyncEnsure
  \/ TuiSyncFetch
  \/ TuiSyncPreCommit
  \/ TuiSyncPull
  \/ TuiSyncRestore
  \/ TuiSyncCopy
  \/ TuiSyncCopyError
  \/ TuiSyncCommit
  \/ TuiSyncPush
  \/ TuiSyncEnd
  \/ RemoteAdvance
  \/ EditBetween

\* The worker on a machine with a repository URL and the default branch.
InitSync == InitBranch /\ url["A"] # "" /\ bname["A"] = DefaultBranch

SpecSync == InitSync /\ [][NextSync]_vars

(***************************************************************************)
(* Claims about the sync worker (under SpecSync).                          *)
(***************************************************************************)
\* The content of the directory d is recorded by some commit as the
\* subtree of the profile.
InRepository(d) ==
  \/ FilesOf(d) = {}
  \/ \E c \in 1..Len(commits) : commits[c].tree.sub[LeafOf(SyncPaths[1])] = d[1]

\* C37: in the sync worker restore_files never overwrites a profile
\* directory whose content has not been copied into the repository: when
\* the restore changed the directory, some commit records what it held.
C37_LocalEditsKept ==
  SyncAt("restore_files") =>
    \/ ext[call.m][SyncPaths[1]] = Before.ext[SyncPaths[1]]
    \/ InRepository(Before.ext[SyncPaths[1]])

\* The restore of the sync worker replaced a file of the profile directory
\* that the user had edited and whose content no commit records.
C37_Witness ==
  /\ SyncAt("restore_files") /\ edits > 0
  /\ Before.ext[SyncPaths[1]] # Some(Profile)
  /\ Exists(Before.ext[SyncPaths[1]])
  /\ \E f \in RelSet :
       /\ Before.ext[SyncPaths[1]][1][f] # 0
       /\ ext[call.m][SyncPaths[1]][1][f] # Before.ext[SyncPaths[1]][1][f]
       /\ \A c \in 1..Len(commits) :
            commits[c].tree.sub[LeafOf(SyncPaths[1])][f] # Before.ext[SyncPaths[1]][1][f]

\* What the profile directory holds after the pull and the restore is
\* copied and committed: after step 3 the head commit records it.
C37_CopiedAndCommitted ==
  (SyncAt("commit_changes") /\ Pulled /\ Exists(ext[call.m][SyncPaths[1]])) =>
    TreeAt(HeadCommit(call.m)).sub[LeafOf(SyncPaths[1])] = ext[call.m][SyncPaths[1]][1]

(***************************************************************************)
(* CompactLogView: the log of the terminal interface.                      *)
(***************************************************************************)
\* The number of add_log calls of a behaviour.
MaxAdds == 102

\* add_log keeping the first hundred messages.
AddLogKeepFirst(logs, message) ==
  LET a == Append(logs, message) IN
  IF Len(a) > 100 THEN SubSeq(a, 1, 100) ELSE a

\* self.recent_logs after add_log(message): the message appended, and the
\* last hundred kept when there are more.
AddLog(logs, message) ==
  LET a == Append(logs, message) IN
  IF Len(a) > 100 THEN SubSeq(a, Len(a) - 99, Len(a)) ELSE a

\* self.recent_logs after clear_logs()
ClearedLogs(logs) == <<>>

\* The widget after a call: its list, what update() was given, and the
\* messages added since the last clear; n counts the add_log calls.
LogView(op, logs, added, n) ==
  [op |-> op, recent_logs |-> logs, shown |-> logs, added |-> added, n |-> n]

\* The n-th message added is "Log message n".
AddLogCall ==
  /\ call.n < MaxAdds
  /\ call' = LogView("add_log", AddLog(call.recent_logs, call.n + 1),
                     Append(call.added, call.n + 1), call.n + 1)
  /\ UNCHANGED <<ext, parent, wt, mvars, gitvars, edits>>

ClearLogsCall ==
  /\ call.op = "add_log"
  /\ call' = LogView("clear_logs", ClearedLogs(call.recent_logs), <<>>, call.n)
  /\ UNCHANGED <<ext, parent, wt, mvars, gitvars, edits>>

InitLog ==
  /\ ext = [m \in Machines |-> [p \in Paths |-> None]]
  /\ parent = [m \in Machines |-> [q \in Parents |-> FALSE]]
  /\ wt = [m \in Machines |-> NoTree]
  /\ disk = [m \in Machines |-> "absent"]
  /\ handle = [m \in Machines |-> FALSE]
  /\ url = [m \in Machines |-> ""]
  /\ bname = [m \in Machines |-> DefaultBranch]
  /\ origin = [m \in Machines |-> ""]
  /\ heads = [m \in Machines |-> NoHeads]
  /\ active = [m \in Machines |-> DefaultBranch]
  /\ track = [m \in Machines |-> NoTrack]
  /\ orefs = [m \in Machines |-> NoHeads]
  /\ rheads = NoHeads
  /\ commits = <<>>
  /\ call = LogView("", <<>>, <<>>, 0)
  /\ edits = 0

NextLog ==
  \/ AddLogCall
  \/ ClearLogsCall

SpecLog == InitLog /\ [][NextLog]_vars

(***************************************************************************)
(* Claims about the log (under SpecLog).                                   *)
(***************************************************************************)
\* The last k elements of a sequence, all of them when it has fewer.
LastOf(s, k) == IF Len(s) > k THEN SubSeq(s, Len(s) - k + 1, Len(s)) ELSE s

\* C38: after any sequence of add_log and clear_logs calls the log holds at
\* most 100 messages, which are the most recently added ones since the last
\* clear, in insertion order; after clear_logs it is empty.
C38_BoundedLog ==
  /\ Len(call.recent_logs) <= 100
  /\ call.recent_logs = LastOf(call.added, 100)
  /\ call.op = "clear_logs" => call.recent_logs = <<>>

\* More than a hundred messages were added since the last clear, so add_log
\* has dropped the oldest.
C38_Witness ==
  /\ call.op = "add_log"
  /\ Len(call.added) > 100
  /\ call.recent_logs[1] = call.added[Len(call.added) - 99]

(***************************************************************************)
(* Config: the configuration file, an instance, and the init dialog and    *)
(* command that write it.                                                  *)
(***************************************************************************)
Keys == {"repository_url", "repository_name", "branch_name", "user_paths"}

\* What the user enters: a value no default equals.
Values == {"v1"}

\* A dictionary over the keys: None for a key it does not hold.
NoKeys == [k \in Keys |-> None]

\* _get_default_config(): the top level and the profile "default", whose
\* paths of the platform stand under user_paths.
DefaultConfig ==
  [top |-> [NoKeys EXCEPT !["repository_url"] = Some(""),
                          !["repository_name"] = Some("orca-profiles")],
   profile |-> [NoKeys EXCEPT !["branch_name"] = Some("main"),
                              !["user_paths"] = Some("~/.config/OrcaSlicer/user")]]

\* _load_config(): the file's content, the default when there is no file.
LoadConfig(file) == IF file = None THEN DefaultConfig ELSE file[1]

\* _load_profile(): the top level, overridden by the settings and the
\* platform paths of the default profile.
LoadProfile(data) ==
  [k \in Keys |-> IF data.profile[k] # None THEN data.profile[k] ELSE data.top[k]]

\* Config(config_path)
NewConfig(file) == [data |-> LoadConfig(file), active_profile |-> LoadProfile(LoadConfig(file))]

\* set(key, value): self.data[key] = value
Set(cfg, key, value) == [cfg EXCEPT !.data.top[key] = Some(value)]

\* The accessors get(key), repository_url, repository_name, branch_name and
\* user_paths, with their defaults.
Get(cfg, key) ==
  IF cfg.active_profile[key] # None THEN cfg.active_profile[key][1]
  ELSE CASE key = "repository_url" -> ""
         [] key = "repository_name" -> "orca-profiles"
         [] key = "branch_name" -> Hostname("A")
         [] OTHER -> "[]"

\* GitManager(repo_path, url, branch), for the repository named name.
Engine(name, u, branch) == <<[repository_name |-> name, repository_url |-> u, branch_name |-> branch]>>

\* The configuration after a call: the instance, the file, the last key set
\* with its value, what the dialog or command was given, and the manager
\* it constructed.
ConfigState(op, cfg, file, key, value, entered, engine) ==
  [op |-> op, cfg |-> cfg, file |-> file, key |-> key, value |-> value,
   entered |-> entered, engine |-> engine]

ConfigSet(key, value) ==
  /\ call' = ConfigState("set", Set(call.cfg, key, value), call.file, key, value, <<>>, <<>>)
  /\ UNCHANGED <<ext, parent, wt, mvars, gitvars, edits>>

\* save(): yaml.dump(self.data)
ConfigSave ==
  /\ call' = ConfigState("save", call.cfg, Some(call.cfg.data), call.key, call.value, <<>>, <<>>)
  /\ UNCHANGED <<ext, parent, wt, mvars, gitvars, edits>>

\* A fresh Config(config_path)
ConfigLoad ==
  /\ call' = ConfigState("load", NewConfig(call.file), call.file, "", "", <<>>, <<>>)
  /\ UNCHANGED <<ext, parent, wt, mvars, gitvars, edits>>

\* What the dialog or the command sets: URL, repository name, branch name
\* (None when not asked for) and paths (None when none are discovered).
RECURSIVE SetAll(_, _, _)
SetAll(cfg, entered, ks) ==
  IF ks = <<>> THEN cfg
  ELSE SetAll(IF entered[ks[1]] = None THEN cfg ELSE Set(cfg, ks[1], entered[ks[1]][1]),
              entered, Tail(ks))

KeyOrder == <<"repository_url", "repository_name", "branch_name", "user_paths">>

\* InitDialog.handle_save: set, save, then initialize_repository with the
\* repository path of the application and the accessors of its Config.
HandleSave(entered) ==
  /\ entered["branch_name"] # None
  /\ LET cfg == SetAll(call.cfg, entered, KeyOrder) IN
     call' = ConfigState("handle_save", cfg, Some(cfg.data), "", "", <<entered>>,
                         Engine(Get(call.cfg, "repository_name"),
                                Get(cfg, "repository_url"), Get(cfg, "branch_name")))
  /\ UNCHANGED <<ext, parent, wt, mvars, gitvars, edits>>

\* The init command: a Config is loaded, set and saved, and the manager is
\* constructed from the URL entered and the accessors.
CliInit(entered) ==
  /\ entered["branch_name"] = None
  /\ LET cfg == SetAll(NewConfig(call.file), entered, KeyOrder) IN
     call' = ConfigState("init", cfg, Some(cfg.data), "", "", <<entered>>,
                         Engine(Get(cfg, "repository_name"),
                                entered["repository_url"][1], Get(cfg, "branch_name")))
  /\ UNCHANGED <<ext, parent, wt, mvars, gitvars, edits>>

\* What can be entered: a URL and a repository name, with or without branch
\* name and paths.
Entries ==
  {e \in [Keys -> {None} \cup {Some(v) : v \in Values}] :
     e["repository_url"] # None /\ e["repository_name"] # None}

InitConfig ==
  /\ ext = [m \in Machines |-> [p \in Paths |-> None]]
  /\ parent = [m \in Machines |-> [q \in Parents |-> FALSE]]
  /\ wt = [m \in Machines |-> NoTree]
  /\ disk = [m \in Machines |-> "absent"]
  /\ handle = [m \in Machines |-> FALSE]
  /\ url = [m \in Machines |-> ""]
  /\ bname = [m \in Machines |-> DefaultBranch]
  /\ origin = [m \in Machines |-> ""]
  /\ heads = [m \in Machines |-> NoHeads]
  /\ active = [m \in Machines |-> DefaultBranch]
  /\ track = [m \in Machines |-> NoTrack]
  /\ orefs = [m \in Machines |-> NoHeads]
  /\ rheads = NoHeads
  /\ commits = <<>>
  /\ call = ConfigState("load", NewConfig(None), None, "", "", <<>>, <<>>)
  /\ edits = 0

NextConfig ==
  \/ \E k \in Keys, v \in Values : ConfigSet(k, v)
  \/ ConfigSave
  \/ ConfigLoad
  \/ \E e \in Entries : HandleSave(e)
  \/ \E e \in Entries : CliInit(e)

SpecConfig == InitConfig /\ [][NextConfig]_vars

(***************************************************************************)
(* Claims about the configuration (under SpecConfig).                      *)
(***************************************************************************)
\* The manager was constructed with what was entered.
EngineAsEntered ==
  \A k \in {"repository_url", "repository_name", "branch_name"} :
    call.entered[1][k] # None => call.engine[1][k] = call.entered[1][k][1]

\* C39: after set(key, v) the accessor of the instance returns v; after set
\* and save a freshly loaded Config returns v for every key the file holds
\* at its top level; and the manager constructed by the init dialog or the
\* init command gets the URL, repository name and branch name entered.
C39_SetIsUsed ==
  /\ call.op = "set" => Get(call.cfg, call.key) = call.value
  /\ (call.op = "load" /\ call.file # None) =>
       \A k \in Keys : call.file[1].top[k] # None => Get(call.cfg, k) = call.file[1].top[k][1]
  /\ call.op \in {"handle_save", "init"} => EngineAsEntered

\* The init dialog was saved with a URL, and the manager it constructed has
\* another URL.
C39_Witness ==
  /\ call.op = "handle_save"
  /\ call.entered[1]["repository_url"] = Some("v1")
  /\ call.file[1].top["repository_url"] = Some("v1")
  /\ call.engine[1].repository_url # "v1"

\* What is set and saved at the top level is read back by a fresh Config
\* unless the default profile holds the key: the URL and the repository
\* name are read back.
C39_ReloadedUnlessProfile ==
  (call.op = "load" /\ call.file # None) =>
    \A k \in {"repository_url", "repository_name"} :
      call.file[1].top[k] # None => Get(call.cfg, k) = call.file[1].top[k][1]

====
